---- MODULE Spec2Model ----
(***************************************************************************)
(* A model of the ros-rerun bridge: the converter registry                 *)
(* (crates/ros_rerun_types/src/converter.rs), and the topology runtime     *)
(* with its subscription and sink workers                                  *)
(* (crates/ros_rerun/src/topology.rs, worker.rs).                          *)
(***************************************************************************)
EXTENDS Integers, Sequences, FiniteSets, TLC

\* ------------------------------------------------------------------------
\* Bounds of the model
\* ------------------------------------------------------------------------
MaxNameLen == 3
MaxRegs == 3
MaxApplies == 2
MaxMsgs == 2
\* applies and inbound messages of one run, together
MaxEvents == 3
\* calls of ConverterBuilder::build in one run
MaxBuilds == 2
\* longest input list of a stream, and calls of parse_topology_config on one Config
MaxInputs == 2
MaxCompiles == 2
\* most units in one LogData value, and most values queued for a sink at first
MaxBatch == 2
MaxQueue == 2

\* ------------------------------------------------------------------------
\* Generic helpers
\* ------------------------------------------------------------------------
\* Option<T>: None is the empty sequence, Some(x) the sequence of x alone.
None == <<>>
Some(x) == <<x>>
IsSome(o) == o # None
Unwrap(o) == o[1]

\* HashMap / BTreeMap values are functions with a finite domain.
EmptyMap == <<>>
MapInsert(m, k, v) == [x \in (DOMAIN m) \cup {k} |-> IF x = k THEN v ELSE m[x]]
MapContains(m, k) == k \in DOMAIN m
MapGet(m, k) == IF k \in DOMAIN m THEN Some(m[k]) ELSE None

SeqsUpTo(S, n) == UNION {[1..k -> S] : k \in 0..n}

\* ------------------------------------------------------------------------
\* Names: strings are sequences of characters.  The two characters "r" "."
\* stand for the namespace prefix "rerun.archetypes."; a string may hold a
\* part of the prefix, the prefix alone, or the prefix more than once.
\* ------------------------------------------------------------------------
Chars == {"r", ".", "T"}
ARCHETYPE_PREFIX == <<"r", ".">>
ANY_NAME == <<"<ANY>">>

starts_with(s, p) == Len(s) >= Len(p) /\ SubSeq(s, 1, Len(p)) = p

\* enum RerunName { RerunArchetype(ArchetypeName), ROSArchetype(ArchetypeName), Components }
RerunArchetype(n) == [tag |-> "RerunArchetype", name |-> n]
ROSArchetype(n) == [tag |-> "ROSArchetype", name |-> n]
Components == [tag |-> "Components", name |-> <<>>]

NameStrings == SeqsUpTo(Chars, MaxNameLen)
RerunNames == {RerunArchetype(n) : n \in NameStrings}
                \cup {ROSArchetype(n) : n \in NameStrings}
                \cup {Components}

\* A fault of fully_qualified_name: the prefix is added without looking.
fully_qualified_name_always_prefixes(name) ==
    IF name.tag = "RerunArchetype"
    THEN RerunArchetype(ARCHETYPE_PREFIX \o name.name)
    ELSE name

fully_qualified_name(name) ==
    IF name.tag = "RerunArchetype"
    THEN IF starts_with(name.name, ARCHETYPE_PREFIX)
         THEN RerunArchetype(name.name)
         ELSE RerunArchetype(ARCHETYPE_PREFIX \o name.name)
    ELSE name

\* ------------------------------------------------------------------------
\* ROS type names
\* ------------------------------------------------------------------------
\* ROSTypeString(package, type): the unchecked form.
STD_MSGS_STRING == <<"std_msgs", "String">>
SENSOR_MSGS_IMAGE == <<"sensor_msgs", "Image">>
MISSING_TYPE == <<"no_pkg", "Missing">>
RosTypeStrings == {STD_MSGS_STRING, SENSOR_MSGS_IMAGE, MISSING_TYPE}

\* The message definitions the environment provides (the schema catalog).
InstalledTypes == {STD_MSGS_STRING, SENSOR_MSGS_IMAGE}

\* impl Display for ROSTypeString
ROSTypeString_to_string(t) ==
    IF t[1] = "" /\ t[2] = "" THEN <<"<ANY>">> ELSE <<t[1], "/msg/", t[2]>>

\* impl Display for ROSTypeName (the display of rclrs::MessageTypeName)
ROSTypeName_to_string(t) == <<t[1], "/msg/", t[2]>>

\* impl TryFrom<&ROSTypeString> for ROSTypeName: Ok(name) or Err(error)
ROSTypeName_try_from(t) ==
    IF t \in InstalledTypes
    THEN [ok |-> TRUE, val |-> t]
    ELSE [ok |-> FALSE, err |-> [kind |-> "InvalidMessageType", ros_type |-> t]]

\* ------------------------------------------------------------------------
\* Converter prototypes.  `impl` tells apart two converters that declare the
\* same target name and source type; `config` is what set_config left.
\* ------------------------------------------------------------------------
\* TextDocumentConfig::default()
Unconfigured == [field |-> None]
Converter(impl, rerun_name, ros_type) ==
    [impl |-> impl, rerun_name |-> rerun_name, ros_type |-> ros_type,
     config |-> Unconfigured]

\* converters/text.rs
TEXT_DOCUMENT == RerunArchetype(ARCHETYPE_PREFIX \o <<"T">>)
StdStringToTextDocument ==
    Converter("StdStringToTextDocument", TEXT_DOCUMENT, Some(STD_MSGS_STRING))
AnyToTextDocument == Converter("AnyToTextDocument", TEXT_DOCUMENT, None)

\* The prototypes a registration may be given: for each kind of source type
\* (valid, another valid one, not installed, none) converters that declare
\* the target unqualified, qualified, or as a ROS archetype.
ProtoNames == {RerunArchetype(<<"T">>), TEXT_DOCUMENT, ROSArchetype(<<"T">>)}
Protos ==
    {Converter(i, n, t) : i \in {"x", "y"},
                          n \in {RerunArchetype(<<"T">>), TEXT_DOCUMENT},
                          t \in {None, Some(STD_MSGS_STRING)}}
    \cup {Converter("x", ROSArchetype(<<"T">>), t) : t \in {None, Some(STD_MSGS_STRING)}}
    \cup {Converter("x", n, Some(SENSOR_MSGS_IMAGE)) :
              n \in {RerunArchetype(<<"T">>), TEXT_DOCUMENT}}
    \cup {Converter("x", TEXT_DOCUMENT, Some(MISSING_TYPE)),
          Converter("y", RerunArchetype(<<"T">>), Some(MISSING_TYPE))}

VARIABLES
    \* struct ConverterRegistry
    converters, converters_by_ros_type, generic_converters, error_types,
    \* what register_converter does besides: the type strings it hands to
    \* ROSTypeName::try_from, and those its debug! line reports as failed
    try_from_calls, failure_logs,
    \* history of the calls (not program state)
    regLog, lastFind, lastQual,
    \* the converters ConverterBuilder::build has handed to its callers
    built,
    \* struct TopologyState
    topic_subscriptions, grpc_sinks, db_sink, edges, shutdown_trigger,
    \* the Tripwires that have fired, the channels, the spawned sink run loops,
    \* the conversion tasks spawned by the subscription callbacks
    tripped, chans, sinkTasks, tasks,
    \* how far a drop of the TopologyState has come
    dropPhase,
    \* history of the apply_config calls (not program state)
    applied,
    \* the Config handed to parse_topology_config, and what its calls returned
    loaded_config, compiled

regVars == <<converters, converters_by_ros_type, generic_converters, error_types,
             try_from_calls, failure_logs,
             regLog, lastFind, lastQual, built>>
topoVars == <<topic_subscriptions, grpc_sinks, db_sink, edges, shutdown_trigger>>
rtVars == <<topoVars, tripped, chans, sinkTasks, tasks, dropPhase, applied>>
parseVars == <<loaded_config, compiled>>
vars == <<regVars, rtVars, parseVars>>

\* The registry as one value
Registry == [converters |-> converters,
             converters_by_ros_type |-> converters_by_ros_type,
             generic_converters |-> generic_converters,
             error_types |-> error_types,
             try_from_calls |-> try_from_calls, failure_logs |-> failure_logs]

EmptyRegistry == [converters |-> EmptyMap, converters_by_ros_type |-> EmptyMap,
                  generic_converters |-> EmptyMap, error_types |-> EmptyMap,
                  try_from_calls |-> <<>>, failure_logs |-> <<>>]

\* ------------------------------------------------------------------------
\* ConverterRegistry::register_converter
\* ------------------------------------------------------------------------
\* A fault of register_converter: the default slot of a source type is
\* overwritten by every registration for that type.
register_converter_overwrites_default(r, rerun_name, ros_type, converter) ==
    IF ros_type = None
    THEN [r EXCEPT !.generic_converters = MapInsert(@, rerun_name, converter)]
    ELSE LET parsed_type == ROSTypeName_try_from(Unwrap(ros_type))
             called == [r EXCEPT !.try_from_calls = Append(@, Unwrap(ros_type))]
         IN
         IF parsed_type.ok
         THEN [called EXCEPT
                 !.converters_by_ros_type = MapInsert(@, parsed_type.val, converter),
                 !.converters = MapInsert(@, <<parsed_type.val, rerun_name>>, converter)]
         ELSE IF MapContains(r.error_types, ROSTypeString_to_string(Unwrap(ros_type)))
              THEN called
              ELSE [called EXCEPT
                      !.error_types =
                          MapInsert(@, ROSTypeString_to_string(Unwrap(ros_type)),
                                    parsed_type.err),
                      !.failure_logs =
                          Append(@, ROSTypeString_to_string(Unwrap(ros_type)))]

\* A fault of register_converter: the memo of failed types is not consulted,
\* every failure is recorded and reported anew.
register_converter_memo_overwritten(r, rerun_name, ros_type, converter) ==
    IF ros_type = None
    THEN [r EXCEPT !.generic_converters = MapInsert(@, rerun_name, converter)]
    ELSE LET parsed_type == ROSTypeName_try_from(Unwrap(ros_type))
             called == [r EXCEPT !.try_from_calls = Append(@, Unwrap(ros_type))]
         IN
         IF parsed_type.ok
         THEN [called EXCEPT
                 !.converters_by_ros_type =
                     IF ~MapContains(@, parsed_type.val)
                     THEN MapInsert(@, parsed_type.val, converter) ELSE @,
                 !.converters = MapInsert(@, <<parsed_type.val, rerun_name>>, converter)]
         ELSE [called EXCEPT
                 !.error_types =
                     MapInsert(@, ROSTypeString_to_string(Unwrap(ros_type)),
                               parsed_type.err),
                 !.failure_logs =
                     Append(@, ROSTypeString_to_string(Unwrap(ros_type)))]

\* A fault of register_converter: a pair that has a converter keeps it.
register_converter_keeps_exact(r, rerun_name, ros_type, converter) ==
    IF ros_type = None
    THEN [r EXCEPT !.generic_converters = MapInsert(@, rerun_name, converter)]
    ELSE LET parsed_type == ROSTypeName_try_from(Unwrap(ros_type))
             called == [r EXCEPT !.try_from_calls = Append(@, Unwrap(ros_type))]
         IN
         IF parsed_type.ok
         THEN [called EXCEPT
                 !.converters_by_ros_type =
                     IF ~MapContains(@, parsed_type.val)
                     THEN MapInsert(@, parsed_type.val, converter) ELSE @,
                 !.converters =
                     IF ~MapContains(@, <<parsed_type.val, rerun_name>>)
                     THEN MapInsert(@, <<parsed_type.val, rerun_name>>, converter)
                     ELSE @]
         ELSE IF MapContains(r.error_types, ROSTypeString_to_string(Unwrap(ros_type)))
              THEN called
              ELSE [called EXCEPT
                      !.error_types =
                          MapInsert(@, ROSTypeString_to_string(Unwrap(ros_type)),
                                    parsed_type.err),
                      !.failure_logs =
                          Append(@, ROSTypeString_to_string(Unwrap(ros_type)))]

register_converter(r, rerun_name, ros_type, converter) ==
    IF ros_type = None
    THEN \* Ok(None)
         [r EXCEPT !.generic_converters = MapInsert(@, rerun_name, converter)]
    ELSE LET \* ros_type.map(ROSTypeName::try_from), before anything else
             parsed_type == ROSTypeName_try_from(Unwrap(ros_type))
             called == [r EXCEPT !.try_from_calls = Append(@, Unwrap(ros_type))]
         IN
         IF parsed_type.ok
         THEN \* Ok(Some(ros_type))
              [called EXCEPT
                 !.converters_by_ros_type =
                     IF ~MapContains(@, parsed_type.val)
                     THEN MapInsert(@, parsed_type.val, converter) ELSE @,
                 !.converters = MapInsert(@, <<parsed_type.val, rerun_name>>, converter)]
         ELSE \* Err(err)
              IF MapContains(r.error_types, ROSTypeString_to_string(Unwrap(ros_type)))
              THEN called
              ELSE [called EXCEPT
                      !.error_types =
                          MapInsert(@, ROSTypeString_to_string(Unwrap(ros_type)),
                                    parsed_type.err),
                      !.failure_logs =
                          Append(@, ROSTypeString_to_string(Unwrap(ros_type)))]

\* ConverterRegistry::register
register(r, converter) ==
    register_converter(r, converter.rerun_name, converter.ros_type, converter)

\* ------------------------------------------------------------------------
\* ConverterRegistry::find_converter and its three cases
\* ------------------------------------------------------------------------
Ok(c) == [ok |-> TRUE, val |-> c]
UnsupportedConversion(name, ros_type) ==
    [ok |-> FALSE,
     err |-> [kind |-> "UnsupportedConversion", name |-> name, ros_type |-> ros_type]]

\* A fault of find_converter_both: when the generic index misses too, the
\* default converter of the source type is returned, whatever its target.
find_converter_both_default_fallback(r, ros_type, rerun_name) ==
    LET name == fully_qualified_name(rerun_name) IN
    IF MapContains(r.converters, <<ros_type, name>>)
    THEN Ok(r.converters[<<ros_type, name>>])
    ELSE IF MapContains(r.generic_converters, name)
    THEN Ok(r.generic_converters[name])
    ELSE IF MapContains(r.converters_by_ros_type, ros_type)
    THEN Ok(r.converters_by_ros_type[ros_type])
    ELSE UnsupportedConversion(name, Some(ROSTypeName_to_string(ros_type)))

find_converter_both(r, ros_type, rerun_name) ==
    LET name == fully_qualified_name(rerun_name) IN
    IF MapContains(r.converters, <<ros_type, name>>)
    THEN Ok(r.converters[<<ros_type, name>>])
    ELSE IF MapContains(r.generic_converters, name)
    THEN Ok(r.generic_converters[name])
    ELSE UnsupportedConversion(name, Some(ROSTypeName_to_string(ros_type)))

\* A fault of find_converter_for_generic_archetype: the name is used as given.
find_converter_for_generic_archetype_unqualified(r, rerun_name) ==
    IF MapContains(r.generic_converters, rerun_name)
    THEN Ok(r.generic_converters[rerun_name])
    ELSE UnsupportedConversion(rerun_name, None)

find_converter_for_generic_archetype(r, rerun_name) ==
    LET name == fully_qualified_name(rerun_name) IN
    IF MapContains(r.generic_converters, name)
    THEN Ok(r.generic_converters[name])
    ELSE UnsupportedConversion(name, None)

find_converter_for_ros_type(r, ros_type) ==
    IF MapContains(r.converters_by_ros_type, ros_type)
    THEN Ok(r.converters_by_ros_type[ros_type])
    ELSE UnsupportedConversion(RerunArchetype(ANY_NAME),
                               Some(ROSTypeName_to_string(ros_type)))

\* ros_type and rerun_name are Option values: None or Some(x)
find_converter(r, ros_type, rerun_name) ==
    IF IsSome(ros_type) /\ IsSome(rerun_name)
    THEN find_converter_both(r, Unwrap(ros_type), Unwrap(rerun_name))
    ELSE IF IsSome(ros_type)
    THEN find_converter_for_ros_type(r, Unwrap(ros_type))
    ELSE IF IsSome(rerun_name)
    THEN find_converter_for_generic_archetype(r, Unwrap(rerun_name))
    ELSE UnsupportedConversion(RerunArchetype(ANY_NAME), None)

\* ------------------------------------------------------------------------
\* ConverterBuilder::build and the converters' set_config
\* ------------------------------------------------------------------------
\* ConverterSettings(toml::Table): a map from keys to typed values
NoSettings == EmptyMap
FieldIsString == [k \in {"field"} |-> [type |-> "String", value |-> "data"]]
FieldIsInteger == [k \in {"field"} |-> [type |-> "Integer", value |-> "1"]]
SettingsValues == {NoSettings, FieldIsString, FieldIsInteger}

InvalidConfig(name, ros_type) ==
    [ok |-> FALSE, err |-> [kind |-> "InvalidConfig", name |-> name, ros_type |-> ros_type]]

\* TextDocumentConfig::parse
TextDocumentConfig_parse(config, rerun_name, ros_type) ==
    IF MapContains(config, "field")
    THEN IF config["field"].type = "String"
         THEN Ok([field |-> Some(config["field"].value)])
         ELSE InvalidConfig(rerun_name, ROSTypeString_to_string(ros_type))
    ELSE Ok([field |-> None])

\* ConverterCfg::set_config of the registered converters: Ok(converter) or Err
set_config(converter, config) ==
    IF converter.impl = "AnyToTextDocument"
    THEN LET parsed == TextDocumentConfig_parse(config, converter.rerun_name, <<"", "">>) IN
         IF parsed.ok
         THEN Ok([converter EXCEPT !.config = parsed.val])
         ELSE parsed
    ELSE \* StdStringToTextDocument, and the converters that take no settings
         IF config # NoSettings
         THEN InvalidConfig(converter.rerun_name,
                            ROSTypeString_to_string(Unwrap(converter.ros_type)))
         ELSE Ok(converter)

\* A fault of build: find_converter hands out the stored prototype itself, so
\* set_config configures the prototype and every converter handed out for
\* the same key before.
ConverterBuilder_build_configures_prototype(r, handed, ros_type, rerun_name, config) ==
    LET found == find_converter(r, ros_type, rerun_name)
        result == IF ~found.ok THEN found
                  ELSE IF IsSome(config) THEN set_config(found.val, Unwrap(config))
                  ELSE found
        set_config_calls == IF found.ok /\ IsSome(config) THEN <<Unwrap(config)>> ELSE <<>>
        restamp(index) == [k \in DOMAIN index |->
                              IF found.ok /\ result.ok /\ index[k] = found.val
                              THEN result.val ELSE index[k]]
    IN [result |-> result,
        set_config_calls |-> set_config_calls,
        registry |-> [r EXCEPT !.converters = restamp(@),
                               !.converters_by_ros_type = restamp(@),
                               !.generic_converters = restamp(@)],
        handed |-> Append([i \in 1..Len(handed) |->
                              IF /\ result.ok /\ handed[i].result.ok
                                 /\ handed[i].ros_type = ros_type
                                 /\ handed[i].rerun_name = rerun_name
                              THEN [handed[i] EXCEPT !.result = result]
                              ELSE handed[i]],
                          [ros_type |-> ros_type, rerun_name |-> rerun_name,
                           config |-> config, result |-> result,
                           set_config_calls |-> set_config_calls])]

\* ConverterBuilder::build with all it does; config is an Option.  The
\* registry is borrowed immutably and find_converter returns converter.clone():
\* set_config acts on the builder's own copy.  Besides the result: the
\* settings set_config was called with, the registry afterwards, and the
\* converters handed out so far.
ConverterBuilder_build_effects(r, handed, ros_type, rerun_name, config) ==
    LET found == find_converter(r, ros_type, rerun_name)
        result == IF ~found.ok THEN found
                  ELSE IF IsSome(config) THEN set_config(found.val, Unwrap(config))
                  ELSE found
        set_config_calls == IF found.ok /\ IsSome(config) THEN <<Unwrap(config)>> ELSE <<>>
    IN [result |-> result,
        set_config_calls |-> set_config_calls,
        registry |-> r,
        handed |-> Append(handed,
                          [ros_type |-> ros_type, rerun_name |-> rerun_name,
                           config |-> config, result |-> result,
                           set_config_calls |-> set_config_calls])]

\* ConverterBuilder::build: what it returns
ConverterBuilder_build(r, ros_type, rerun_name, config) ==
    ConverterBuilder_build_effects(r, <<>>, ros_type, rerun_name, config).result

\* Converter::convert_view of the registered converters, on a message that
\* has a string field "data" or lacks it
convert_view(converter, msg) ==
    IF converter.impl = "AnyToTextDocument"
    THEN TRUE
    ELSE msg.data

\* register_converters, from ConverterRegistry::init
InitRegistry == register(register(EmptyRegistry, StdStringToTextDocument), AnyToTextDocument)

\* ------------------------------------------------------------------------
\* Component identifiers and the declarative configuration
\* ------------------------------------------------------------------------
\* enum ComponentID, ordered as derive(Ord) orders it: by variant, then by name
TopicSubscriber(name) == <<"TopicSubscriber", name>>
GRPCSink(name) == <<"GRPCSink", name>>
DBSink == <<"DBSink", "">>

\* Declared names, in the order of String's Ord
NameOrder == <<"a", "b", "s1", "s2", "zz">>
Names == {NameOrder[i] : i \in 1..Len(NameOrder)}
NameIndex(n) == CHOOSE i \in 1..Len(NameOrder) : NameOrder[i] = n
NameLess(m, n) == NameIndex(m) < NameIndex(n)
VariantIndex(id) ==
    IF id[1] = "TopicSubscriber" THEN 1 ELSE IF id[1] = "GRPCSink" THEN 2 ELSE 3
IdLess(x, y) ==
    \/ VariantIndex(x) < VariantIndex(y)
    \/ VariantIndex(x) = VariantIndex(y) /\ x # y /\ NameLess(x[2], y[2])
\* The first element of a BTreeMap's key set, and the keys before a key
FirstId(S) == CHOOSE x \in S : \A y \in S : x = y \/ IdLess(x, y)
IdsBefore(S, x) == {y \in S : IdLess(y, x)}

Range(q) == {q[i] : i \in 1..Len(q)}

\* struct TopicSource
TopicSource(topic, ros_type, archetype, converter) ==
    [topic |-> topic, ros_type |-> ros_type, archetype |-> archetype,
     converter |-> converter]
\* struct StreamConfig
StreamConfig(url, inputs) == [url |-> url, inputs |-> inputs]
\* struct DBConfig
DBConfig(data_dir, inputs) == [data_dir |-> data_dir, inputs |-> inputs]
\* struct Config: topics and streams are maps from the declared name
Config(topics, streams, db) == [topics |-> topics, streams |-> streams, db |-> db]

\* ------------------------------------------------------------------------
\* parse_topology_config
\* ------------------------------------------------------------------------
SelfReference(id) == [ok |-> FALSE, err |-> [kind |-> "SelfReference", id |-> id]]
DuplicateID(name) == [ok |-> FALSE, err |-> [kind |-> "DuplicateID", name |-> name]]
InitializationError(id) ==
    [ok |-> FALSE, err |-> [kind |-> "InitializationError", id |-> id]]

\* A fault of the inputs loop: an input that names no declared topic is an
\* error, whether or not it names a stream sink.
RECURSIVE connect_inputs_rejects_unknown(_, _, _, _, _, _)
connect_inputs_rejects_unknown(inputs, i, sink_id, topic_subscriptions_, grpc_sinks_, edges_) ==
    IF i > Len(inputs) THEN Ok(edges_)
    ELSE IF MapContains(topic_subscriptions_, TopicSubscriber(inputs[i]))
    THEN connect_inputs_rejects_unknown(inputs, i + 1, sink_id, topic_subscriptions_,
            grpc_sinks_,
            MapInsert(edges_, sink_id,
                Append(IF MapContains(edges_, sink_id) THEN edges_[sink_id] ELSE <<>>,
                       TopicSubscriber(inputs[i]))))
    ELSE SelfReference(GRPCSink(inputs[i]))

\* A fault of the inputs loop: a connected source is put at the front of the
\* sink's list.
RECURSIVE connect_inputs_prepends(_, _, _, _, _, _)
connect_inputs_prepends(inputs, i, sink_id, topic_subscriptions_, grpc_sinks_, edges_) ==
    IF i > Len(inputs) THEN Ok(edges_)
    ELSE IF MapContains(topic_subscriptions_, TopicSubscriber(inputs[i]))
    THEN connect_inputs_prepends(inputs, i + 1, sink_id, topic_subscriptions_,
            grpc_sinks_,
            MapInsert(edges_, sink_id,
                <<TopicSubscriber(inputs[i])>> \o
                    (IF MapContains(edges_, sink_id) THEN edges_[sink_id] ELSE <<>>)))
    ELSE IF MapContains(grpc_sinks_, GRPCSink(inputs[i]))
    THEN SelfReference(GRPCSink(inputs[i]))
    ELSE connect_inputs_prepends(inputs, i + 1, sink_id, topic_subscriptions_,
            grpc_sinks_, edges_)

\* The inputs loop of one stream (topology.rs 119-130): the edges after it, or
\* the error it returns.
RECURSIVE connect_inputs(_, _, _, _, _, _)
connect_inputs(inputs, i, sink_id, topic_subscriptions_, grpc_sinks_, edges_) ==
    IF i > Len(inputs) THEN Ok(edges_)
    ELSE IF MapContains(topic_subscriptions_, TopicSubscriber(inputs[i]))
    THEN connect_inputs(inputs, i + 1, sink_id, topic_subscriptions_, grpc_sinks_,
            MapInsert(edges_, sink_id,
                Append(IF MapContains(edges_, sink_id) THEN edges_[sink_id] ELSE <<>>,
                       TopicSubscriber(inputs[i]))))
    ELSE IF MapContains(grpc_sinks_, GRPCSink(inputs[i]))
    THEN SelfReference(GRPCSink(inputs[i]))
    ELSE connect_inputs(inputs, i + 1, sink_id, topic_subscriptions_, grpc_sinks_, edges_)

\* A fault of the streams loop: the sink is entered into grpc_sinks only after
\* its inputs have been connected.
RECURSIVE setup_grpc_sinks_inserts_after(_, _, _, _, _, _)
setup_grpc_sinks_inserts_after(config, order, k, topic_subscriptions_, grpc_sinks_, edges_) ==
    IF k > Len(order) THEN Ok([grpc_sinks |-> grpc_sinks_, edges |-> edges_])
    ELSE LET name == order[k]
             stream == config.streams[name]
             sink_id == GRPCSink(name)
             connected == connect_inputs(stream.inputs, 1, sink_id,
                                         topic_subscriptions_, grpc_sinks_, edges_)
         IN IF ~connected.ok THEN connected
            ELSE setup_grpc_sinks_inserts_after(config, order, k + 1,
                    topic_subscriptions_,
                    MapInsert(grpc_sinks_, sink_id, stream.url), connected.val)

\* The streams loop (topology.rs 114-131), over the streams in the order the
\* HashMap enumerates them.
RECURSIVE setup_grpc_sinks(_, _, _, _, _, _)
setup_grpc_sinks(config, order, k, topic_subscriptions_, grpc_sinks_, edges_) ==
    IF k > Len(order) THEN Ok([grpc_sinks |-> grpc_sinks_, edges |-> edges_])
    ELSE LET name == order[k]
             stream == config.streams[name]
             sink_id == GRPCSink(name)
             sinks2 == MapInsert(grpc_sinks_, sink_id, stream.url)
             connected == connect_inputs(stream.inputs, 1, sink_id,
                                         topic_subscriptions_, sinks2, edges_)
         IN IF ~connected.ok THEN connected
            ELSE setup_grpc_sinks(config, order, k + 1, topic_subscriptions_,
                                  sinks2, connected.val)

\* A fault of check_duplicate_ids: `seen` holds the ComponentIDs, not the names,
\* so a topic and a stream sink never collide.
check_duplicate_ids_by_id(topo) ==
    LET dups == (DOMAIN topo.topic_subscriptions) \cap (DOMAIN topo.grpc_sinks)
    IN IF dups # {} THEN DuplicateID(FirstId(dups)[2]) ELSE Ok(topo)

\* TopologyConfig::check_duplicate_ids
check_duplicate_ids(topo) ==
    LET topic_names == {id[2] : id \in DOMAIN topo.topic_subscriptions}
        dups == {id \in DOMAIN topo.grpc_sinks : id[2] \in topic_names}
    IN IF dups # {} THEN DuplicateID(FirstId(dups)[2]) ELSE Ok(topo)

\* TopologyConfig::check_invalid_edges
check_invalid_edges(topo) ==
    LET bad == {sink \in DOMAIN topo.edges : sink \in Range(topo.edges[sink])}
    IN IF bad # {} THEN SelfReference(FirstId(bad)) ELSE Ok(topo)

\* TopologyConfig::validate
validate(topo) ==
    IF ~check_duplicate_ids(topo).ok THEN check_duplicate_ids(topo)
    ELSE check_invalid_edges(topo)

\* A fault of parse_topology_config: grpc_sinks keeps only the stream sinks
\* that received an edge.
parse_topology_config_sinks_from_edges(config, order) ==
    LET topic_subscriptions_ ==
            [id \in {TopicSubscriber(n) : n \in DOMAIN config.topics}
                |-> config.topics[id[2]]]
        db_inputs == SelectSeq(config.db.inputs,
                        LAMBDA input : MapContains(topic_subscriptions_,
                                                   TopicSubscriber(input)))
        db_targets == [i \in 1..Len(db_inputs) |-> TopicSubscriber(db_inputs[i])]
        edges0 == MapInsert(EmptyMap, DBSink, db_targets)
        sinks == setup_grpc_sinks(config, order, 1, topic_subscriptions_,
                                  EmptyMap, edges0)
    IN IF ~sinks.ok THEN sinks
       ELSE validate([topic_subscriptions |-> topic_subscriptions_,
                      grpc_sinks |-> [id \in (DOMAIN sinks.val.grpc_sinks)
                                                \cap (DOMAIN sinks.val.edges)
                                        |-> sinks.val.grpc_sinks[id]],
                      db_sink |-> config.db,
                      edges |-> sinks.val.edges])

\* `order` enumerates the declared streams as config.streams() yields them
parse_topology_config(config, order) ==
    LET topic_subscriptions_ ==
            [id \in {TopicSubscriber(n) : n \in DOMAIN config.topics}
                |-> config.topics[id[2]]]
        db_inputs == SelectSeq(config.db.inputs,
                        LAMBDA input : MapContains(topic_subscriptions_,
                                                   TopicSubscriber(input)))
        db_targets == [i \in 1..Len(db_inputs) |-> TopicSubscriber(db_inputs[i])]
        edges0 == MapInsert(EmptyMap, DBSink, db_targets)
        sinks == setup_grpc_sinks(config, order, 1, topic_subscriptions_,
                                  EmptyMap, edges0)
    IN IF ~sinks.ok THEN sinks
       ELSE validate([topic_subscriptions |-> topic_subscriptions_,
                      grpc_sinks |-> sinks.val.grpc_sinks,
                      db_sink |-> config.db,
                      edges |-> sinks.val.edges])

\* Config::default()
Config_default == Config(EmptyMap, EmptyMap, DBConfig("dir", <<>>))

\* The orders in which a HashMap may enumerate a set of keys
Orders(S) == {q \in [1..Cardinality(S) -> S] : Range(q) = S}

\* ------------------------------------------------------------------------
\* The topology runtime: TopologyState::apply_config
\* ------------------------------------------------------------------------
\* TopologyState::default()
InitTopology ==
    /\ topic_subscriptions = EmptyMap
    /\ grpc_sinks = EmptyMap
    /\ db_sink = None
    /\ edges = EmptyMap
    /\ shutdown_trigger = None
    /\ tripped = {}
    /\ chans = EmptyMap
    /\ sinkTasks = EmptyMap
    /\ tasks = <<>>
    /\ dropPhase = "alive"
    /\ applied = <<>>

\* The TopologyState as one value
State == [topic_subscriptions |-> topic_subscriptions, grpc_sinks |-> grpc_sinks,
          db_sink |-> db_sink, edges |-> edges, shutdown_trigger |-> shutdown_trigger]

\* A channel is named by the apply that created it and the sink it was created for.
Chan(gen, id) == <<gen, id>>
ChanGen(ch) == ch[1]
ChanSink(ch) == ch[2]

\* A panic (a failed expect) instead of a returned value
Panic == [ok |-> FALSE, err |-> [kind |-> "panic"]]
IsPanic(r) == ~r.ok /\ r.err.kind = "panic"

\* SubscriptionWorker::new: a panic, an Err, or Ok(worker).  `sub_fails` is the
\* outcome of node.create_dynamic_subscription.
SubscriptionWorker_new(gen, id, config, registry, channel, sub_fails) ==
    IF config.ros_type = None THEN Panic
    ELSE LET ros_type == ROSTypeName_try_from(Unwrap(config.ros_type)) IN
         IF ~ros_type.ok THEN ros_type
         ELSE LET converter ==
                    ConverterBuilder_build(registry, Some(ros_type.val),
                        Some(RerunArchetype(config.archetype)), Some(config.converter))
              IN IF ~converter.ok THEN converter
                 ELSE IF sub_fails THEN [ok |-> FALSE, err |-> [kind |-> "RclrsError"]]
                 ELSE Ok([gen |-> gen, id |-> id, topic |-> config.topic,
                          converter |-> converter.val, tx |-> channel])

\* A fault of the reverse index: every sink's channel is collected.
connecting_components_all(edges_, id) == DOMAIN edges_

\* A fault of the reverse index: a sink counts only when the source is the
\* first of its inputs.
connecting_components_first_input(edges_, id) ==
    {edge_id \in DOMAIN edges_ :
        edges_[edge_id].components # <<>> /\ Head(edges_[edge_id].components) = id}

\* The sinks whose input list holds the source `id` (topology.rs 185-195)
connecting_components(edges_, id) ==
    {edge_id \in DOMAIN edges_ : id \in Range(edges_[edge_id].components)}

\* The recording stream of a sink and its run loop: the state of the loop, the
\* log calls made on the stream, those that failed, the number of
\* flush_blocking calls made on it and of the error! lines about them
SinkTask == [state |-> "Running", logged |-> <<>>, log_errors |-> <<>>,
             flushes |-> 0, flush_errors |-> 0]

\* A fault of the worker: dropping it leaves the stream unflushed.
GRPCSinkWorker_drop_without_flush(task, fails) == task

\* impl Drop for GRPCSinkWorker (worker.rs 122-129): flush_blocking, and the
\* error! line when it fails
GRPCSinkWorker_drop(task, fails) ==
    [task EXCEPT !.flushes = @ + 1,
                 !.flush_errors = IF fails THEN @ + 1 ELSE @]

\* "Apply GRPC sinks" and "Apply DB sink" (topology.rs 222-245), and the
\* outcome of the call: the new state, the channels created, the run loops
\* spawned, the receiving halves dropped on the way out, the Tripwire fired by
\* replacing the Trigger, the streams of the workers that insert put out of
\* the map, and the result.  `workers` holds what
\* SubscriptionWorker::new gave for each declared source, and `fails` the
\* components whose construction the environment makes fail.
apply_sinks(st, config, gen, fails, edges1, workers) ==
    LET
        fired == IF IsSome(st.shutdown_trigger) THEN {Unwrap(st.shutdown_trigger)} ELSE {}
        rx_map == DOMAIN config.edges
        created == {Chan(gen, id) : id \in rx_map}
        topics == DOMAIN workers
        bad_topics == {id \in topics : ~workers[id].ok}
        built_topics == IF bad_topics = {} THEN topics
                        ELSE IdsBefore(topics, FirstId(bad_topics))
        subs1 == [id \in (DOMAIN st.topic_subscriptions) \cup built_topics |->
                     IF id \in built_topics THEN workers[id].val
                     ELSE st.topic_subscriptions[id]]
        sinks == DOMAIN config.grpc_sinks
        sink_outcome(id) == IF id \notin rx_map THEN "panic"
                            ELSE IF id \in fails THEN "err" ELSE "ok"
        bad_sinks == {id \in sinks : sink_outcome(id) # "ok"}
        built_sinks == IF bad_sinks = {} THEN sinks
                       ELSE IdsBefore(sinks, FirstId(bad_sinks))
        sinks1 == [id \in (DOMAIN st.grpc_sinks) \cup built_sinks |->
                     IF id \in built_sinks
                     THEN [gen |-> gen, address |-> config.grpc_sinks[id]]
                     ELSE st.grpc_sinks[id]]
        out(result, subs, gsinks, db, spawned) ==
            [result |-> result,
             state |-> [topic_subscriptions |-> subs, grpc_sinks |-> gsinks,
                        db_sink |-> db, edges |-> edges1,
                        shutdown_trigger |-> Some(gen)],
             fired |-> fired, created |-> created, spawned |-> spawned,
             dropped_rx |-> created \ spawned,
             flushed |-> {Chan(st.grpc_sinks[id].gen, id) :
                             id \in {x \in DOMAIN st.grpc_sinks :
                                        gsinks[x] # st.grpc_sinks[x]}}]
    IN
    IF bad_topics # {}
    THEN out(IF IsPanic(workers[FirstId(bad_topics)]) THEN Panic
             ELSE InitializationError(FirstId(bad_topics)),
             subs1, st.grpc_sinks, st.db_sink, {})
    ELSE IF bad_sinks # {}
    THEN out(IF sink_outcome(FirstId(bad_sinks)) = "panic" THEN Panic
             ELSE InitializationError(FirstId(bad_sinks)),
             subs1, sinks1, st.db_sink, {Chan(gen, id) : id \in built_sinks})
    ELSE IF DBSink \in fails
    THEN out(InitializationError(DBSink), subs1, sinks1, st.db_sink,
             {Chan(gen, id) : id \in built_sinks})
    ELSE out(Ok("applied"), subs1, sinks1, Some([gen |-> gen]),
             {Chan(gen, id) : id \in built_sinks \cup {DBSink}})

\* A fault of "Apply topic subscriptions": a source whose worker cannot be
\* constructed is passed over and the apply goes on.
apply_topic_subscriptions_best_effort(st, config, registry, gen, fails, edges1) ==
    apply_sinks(st, config, gen, fails, edges1,
        [id \in {x \in DOMAIN config.topic_subscriptions :
                    SubscriptionWorker_new(gen, x, config.topic_subscriptions[x],
                        registry,
                        {edges1[c].channel : c \in connecting_components(edges1, x)},
                        x \in fails).ok} |->
            SubscriptionWorker_new(gen, id, config.topic_subscriptions[id], registry,
                {edges1[c].channel : c \in connecting_components(edges1, id)},
                id \in fails)])

\* "Apply topic subscriptions" (topology.rs 183-220): SubscriptionWorker::new
\* for each declared source, given the senders of the sinks that list it
apply_topic_subscriptions(st, config, registry, gen, fails, edges1) ==
    apply_sinks(st, config, gen, fails, edges1,
        [id \in DOMAIN config.topic_subscriptions |->
            SubscriptionWorker_new(gen, id, config.topic_subscriptions[id], registry,
                {edges1[c].channel : c \in connecting_components(edges1, id)},
                id \in fails)])

\* "Apply edges" (topology.rs 170-181): a fresh channel for every edge of the
\* configuration, inserted over the edges the state holds
apply_edges(st, config, gen) ==
    [id \in (DOMAIN st.edges) \cup (DOMAIN config.edges) |->
        IF id \in DOMAIN config.edges
        THEN [components |-> config.edges[id], channel |-> Chan(gen, id)]
        ELSE st.edges[id]]

\* TopologyState::apply_config on the state `st`
apply_config(st, config, registry, gen, fails) ==
    apply_topic_subscriptions(st, config, registry, gen, fails,
                              apply_edges(st, config, gen))

\* ------------------------------------------------------------------------
\* The configurations the runtime is given
\* ------------------------------------------------------------------------
GoodTopic == TopicSource("t", Some(STD_MSGS_STRING), <<"T">>, NoSettings)
AnyTopic == TopicSource("u", Some(SENSOR_MSGS_IMAGE), <<"T">>, FieldIsString)
MissingTypeTopic == TopicSource("u", Some(MISSING_TYPE), <<"T">>, NoSettings)

Topics1(a) == [n \in {"a"} |-> a]
Topics2(a, b) == [n \in {"a", "b"} |-> IF n = "a" THEN a ELSE b]
Streams1(i1) == [n \in {"s1"} |-> StreamConfig("url1", i1)]
Streams2(i1, i2) ==
    [n \in {"s1", "s2"} |-> IF n = "s1" THEN StreamConfig("url1", i1)
                            ELSE StreamConfig("url2", i2)]

RuntimeConfigs == {
    \* one source feeding two stream sinks; it is listed twice by one of them,
    \* beside an undeclared input
    Config(Topics1(GoodTopic), Streams2(<<"a", "zz", "a">>, <<"a">>),
           DBConfig("dir", <<"zz">>)),
    \* two sources; s2 is fed by one of them only, and so is the archive
    Config(Topics2(GoodTopic, AnyTopic), Streams2(<<"a", "b">>, <<"b">>),
           DBConfig("dir", <<"a">>)),
    \* a stream sink without inputs
    Config(Topics1(GoodTopic), Streams2(<<"a">>, <<>>), DBConfig("dir", <<"a">>)),
    \* a source whose type is not installed
    Config(Topics2(GoodTopic, MissingTypeTopic), Streams1(<<"a", "b">>),
           DBConfig("dir", <<>>)) }

\* The components whose construction the environment may make fail
EnvFailures == {{}, {GRPCSink("s2")}, {DBSink}}

\* ------------------------------------------------------------------------
\* Actions of the runtime
\* ------------------------------------------------------------------------
\* The flush of a worker that insert puts out of the map is taken to succeed.
Apply(config, order, fails) ==
    /\ Len(applied) < MaxApplies
    /\ Len(applied) + Len(tasks) < MaxEvents
    /\ dropPhase = "alive"
    /\ \E parsed \in {parse_topology_config(config, order)} :
       /\ parsed.ok
       /\ \E r \in {apply_config(State, parsed.val, Registry, Len(applied) + 1, fails)} :
          /\ topic_subscriptions' = r.state.topic_subscriptions
          /\ grpc_sinks' = r.state.grpc_sinks
          /\ db_sink' = r.state.db_sink
          /\ edges' = r.state.edges
          /\ shutdown_trigger' = r.state.shutdown_trigger
          /\ tripped' = tripped \cup r.fired
          /\ chans' = [ch \in (DOMAIN chans) \cup r.created |->
                          IF ch \in r.created
                          THEN [queue |-> <<>>, open |-> ch \notin r.dropped_rx]
                          ELSE chans[ch]]
          /\ sinkTasks' = [ch \in (DOMAIN sinkTasks) \cup r.spawned |->
                              IF ch \in r.spawned
                              THEN SinkTask
                              ELSE IF ch \in r.flushed
                              THEN GRPCSinkWorker_drop(sinkTasks[ch], FALSE)
                              ELSE sinkTasks[ch]]
          /\ applied' = Append(applied, [config |-> config, result |-> r.result])
    /\ UNCHANGED <<tasks, dropPhase, regVars, parseVars>>

\* LogData::Archetype(LogComponents { entity_path, .. }) made from one message
ArchetypePacket(msg, topic) ==
    [kind |-> "Archetype", units |-> <<[msg |-> msg.id, entity_path |-> topic]>>]

\* The subscription callback: a message arrives and its conversion task is spawned.
OnMessage(id, data) ==
    /\ Len(tasks) < MaxMsgs
    /\ Len(applied) + Len(tasks) < MaxEvents
    /\ id \in DOMAIN topic_subscriptions
    /\ LET w == topic_subscriptions[id] IN
       tasks' = Append(tasks, [msg |-> [id |-> Len(tasks) + 1, data |-> data],
                               worker |-> w, pending |-> w.tx, failed |-> {},
                               runs |-> 0, after |-> {}])
    /\ UNCHANGED <<topoVars, tripped, chans, sinkTasks, dropPhase, applied, regVars, parseVars>>

\* A fault of the conversion task: it gives up at the first failed send.
conv_task_step_stops_on_error(task, ch, open) ==
    IF convert_view(task.worker.converter, task.msg)
    THEN IF open
         THEN [task |-> [task EXCEPT !.runs = @ + 1, !.pending = @ \ {ch}],
               sent |-> Some(ArchetypePacket(task.msg, task.worker.topic))]
         ELSE [task |-> [task EXCEPT !.runs = @ + 1, !.pending = {}, !.failed = @ \cup {ch}],
               sent |-> None]
    ELSE [task |-> [task EXCEPT !.runs = @ + 1, !.pending = @ \ {ch}], sent |-> None]

\* A fault of the conversion task: the packet is sent whether or not the
\* conversion gave data.
conv_task_step_sends_on_failure(task, ch, open) ==
    IF open
    THEN [task |-> [task EXCEPT !.runs = @ + 1, !.pending = @ \ {ch}],
          sent |-> Some(ArchetypePacket(task.msg, task.worker.topic))]
    ELSE [task |-> [task EXCEPT !.runs = @ + 1, !.pending = @ \ {ch}, !.failed = @ \cup {ch}],
          sent |-> None]

\* One turn of the loop `for tx in channel.tx` of a conversion task
\* (worker.rs 68-79): the task afterwards and the packet sent, if any.  Each
\* turn calls convert_view (worker.rs 69); `runs` counts the calls.
conv_task_step(task, ch, open) ==
    IF convert_view(task.worker.converter, task.msg)
    THEN IF open
         THEN [task |-> [task EXCEPT !.runs = @ + 1, !.pending = @ \ {ch}],
               sent |-> Some(ArchetypePacket(task.msg, task.worker.topic))]
         ELSE [task |-> [task EXCEPT !.runs = @ + 1, !.pending = @ \ {ch}, !.failed = @ \cup {ch}],
               sent |-> None]
    ELSE [task |-> [task EXCEPT !.runs = @ + 1, !.pending = @ \ {ch}], sent |-> None]

\* History (not program state): at its first turn a task notes the tasks that
\* had ended by then.
task_started(task, i) ==
    IF tasks[i].runs = 0
    THEN [task EXCEPT !.after = {k \in 1..Len(tasks) : k # i /\ tasks[k].pending = {}}]
    ELSE task

\* A fault of the callback: the messages of a topic are converted one after
\* the other, a message waits for the tasks of those that came before it.
ConvTaskStep_in_arrival_order(i, ch) ==
    /\ i \in 1..Len(tasks)
    /\ ch \in tasks[i].pending
    /\ \A j \in 1..(i - 1) : tasks[j].pending = {}
    /\ LET r == conv_task_step(tasks[i], ch, chans[ch].open) IN
       /\ tasks' = [tasks EXCEPT ![i] = task_started(r.task, i)]
       /\ chans' = IF IsSome(r.sent)
                   THEN [chans EXCEPT ![ch].queue = Append(@, Unwrap(r.sent))]
                   ELSE chans
    /\ UNCHANGED <<topoVars, tripped, sinkTasks, dropPhase, applied, regVars, parseVars>>

\* A fault of the callback: on each channel the messages are sent in the
\* order of their arrival.
ConvTaskStep_per_channel_order(i, ch) ==
    /\ i \in 1..Len(tasks)
    /\ ch \in tasks[i].pending
    /\ \A j \in 1..(i - 1) : ch \notin tasks[j].pending
    /\ LET r == conv_task_step(tasks[i], ch, chans[ch].open) IN
       /\ tasks' = [tasks EXCEPT ![i] = task_started(r.task, i)]
       /\ chans' = IF IsSome(r.sent)
                   THEN [chans EXCEPT ![ch].queue = Append(@, Unwrap(r.sent))]
                   ELSE chans
    /\ UNCHANGED <<topoVars, tripped, sinkTasks, dropPhase, applied, regVars, parseVars>>

\* One turn of a conversion task spawned by the callback (worker.rs 67-80)
ConvTaskStep(i, ch) ==
    /\ i \in 1..Len(tasks)
    /\ ch \in tasks[i].pending
    /\ LET r == conv_task_step(tasks[i], ch, chans[ch].open) IN
       /\ tasks' = [tasks EXCEPT ![i] = task_started(r.task, i)]
       /\ chans' = IF IsSome(r.sent)
                   THEN [chans EXCEPT ![ch].queue = Append(@, Unwrap(r.sent))]
                   ELSE chans
    /\ UNCHANGED <<topoVars, tripped, sinkTasks, dropPhase, applied, regVars, parseVars>>

\* A fault of the match on log_data: of a batch only the first unit is logged.
dispatch_first_of_batch(log_data) ==
    IF log_data.units = <<>> THEN <<>> ELSE <<log_data.units[1]>>

\* The log calls one LogData value causes, an arm of the match for each kind
\* (worker.rs 148-165, 209-226)
dispatch(log_data) ==
    CASE log_data.kind = "Archetype" -> <<log_data.units[1]>>
      [] log_data.kind = "ArchetypeArray" -> log_data.units
      [] log_data.kind = "AnyComponents" -> <<log_data.units[1]>>
      [] log_data.kind = "AnyComponentsArray" -> log_data.units

\* A fault of send_log_comps: a failed log call ends the worker.
send_log_comps_stops_on_error(task, unit, fails) ==
    IF task.state # "Running" THEN task
    ELSE [task EXCEPT !.logged = Append(@, unit),
                      !.log_errors = IF fails THEN Append(@, unit) ELSE @,
                      !.state = IF fails THEN "Stopped" ELSE @]

\* send_log_comps (worker.rs 131-138): the call of rec_stream.log, and the
\* error! line when it fails; nothing is returned.
send_log_comps(task, unit, fails) ==
    [task EXCEPT !.logged = Append(@, unit),
                 !.log_errors = IF fails THEN Append(@, unit) ELSE @]

\* The match on log_data (worker.rs 148-165): send_log_comps for each unit in
\* turn; `failing` holds the positions of the units whose log call fails.
RECURSIVE log_units(_, _, _, _)
log_units(task, units, i, failing) ==
    IF i > Len(units) THEN task
    ELSE log_units(send_log_comps(task, units[i], i \in failing), units, i + 1, failing)

\* Whether the Tripwire given to the run loop of channel ch has fired
shutdown_ready_never(ch) == FALSE

\* A fault of the run loop: an idle inbound channel ends it as well.
shutdown_ready_or_idle(ch) == ChanGen(ch) \in tripped \/ chans[ch].queue = <<>>

shutdown_ready(ch) == ChanGen(ch) \in tripped

\* A fault of the channel: recv yields the packet sent last.
SinkRecv_takes_newest(ch, failing) ==
    /\ ch \in DOMAIN sinkTasks
    /\ sinkTasks[ch].state = "Running"
    /\ chans[ch].queue # <<>>
    /\ LET q == chans[ch].queue IN
       /\ failing \subseteq 1..Len(dispatch(q[Len(q)]))
       /\ sinkTasks' = [sinkTasks EXCEPT
                           ![ch] = log_units(@, dispatch(q[Len(q)]), 1, failing)]
       /\ chans' = [chans EXCEPT ![ch].queue = SubSeq(q, 1, Len(q) - 1)]
    /\ UNCHANGED <<topoVars, tripped, tasks, dropPhase, applied, regVars, parseVars>>

\* run_grpc_sink_worker / run_db_sink_worker: the branch of select! that
\* receives a packet
SinkRecv(ch, failing) ==
    /\ ch \in DOMAIN sinkTasks
    /\ sinkTasks[ch].state = "Running"
    /\ chans[ch].queue # <<>>
    /\ failing \subseteq 1..Len(dispatch(Head(chans[ch].queue)))
    /\ sinkTasks' = [sinkTasks EXCEPT
                        ![ch] = log_units(@, dispatch(Head(chans[ch].queue)), 1, failing)]
    /\ chans' = [chans EXCEPT ![ch].queue = Tail(@)]
    /\ UNCHANGED <<topoVars, tripped, tasks, dropPhase, applied, regVars, parseVars>>

\* ... and the branch that sees the shutdown signal: the loop ends and the
\* receiving half is dropped, with what is queued on it
SinkShutdown(ch) ==
    /\ ch \in DOMAIN sinkTasks
    /\ sinkTasks[ch].state = "Running"
    /\ shutdown_ready(ch)
    /\ sinkTasks' = [sinkTasks EXCEPT ![ch].state = "Stopped"]
    /\ chans' = [chans EXCEPT ![ch].open = FALSE, ![ch].queue = <<>>]
    /\ UNCHANGED <<topoVars, tripped, tasks, dropPhase, applied, regVars, parseVars>>

\* The streams of the GRPCSinkWorkers the state holds
WorkerStreams == {Chan(grpc_sinks[id].gen, id) : id \in DOMAIN grpc_sinks}

\* Dropping the TopologyState drops its fields in declaration order: first the
\* workers and the senders ...
DropWorkers(flush_fails) ==
    /\ dropPhase = "alive"
    /\ applied # <<>>
    /\ flush_fails \subseteq WorkerStreams
    /\ topic_subscriptions' = EmptyMap
    /\ grpc_sinks' = EmptyMap
    /\ db_sink' = None
    /\ edges' = EmptyMap
    /\ sinkTasks' = [ch \in DOMAIN sinkTasks |->
                        IF ch \in WorkerStreams
                        THEN GRPCSinkWorker_drop(sinkTasks[ch], ch \in flush_fails)
                        ELSE sinkTasks[ch]]
    /\ dropPhase' = "workers dropped"
    /\ UNCHANGED <<shutdown_trigger, tripped, chans, tasks, applied, regVars, parseVars>>

\* ... and last the Trigger, which fires the Tripwire
DropTrigger ==
    /\ dropPhase = "workers dropped"
    /\ tripped' = tripped \cup (IF IsSome(shutdown_trigger)
                                THEN {Unwrap(shutdown_trigger)} ELSE {})
    /\ shutdown_trigger' = None
    /\ dropPhase' = "dropped"
    /\ UNCHANGED <<topic_subscriptions, grpc_sinks, db_sink, edges, chans, sinkTasks,
                   tasks, applied, regVars, parseVars>>

SinkIds == {GRPCSink("s1"), GRPCSink("s2"), DBSink}
ChanIds == {Chan(g, id) : g \in 1..MaxApplies, id \in SinkIds}
TopicIds == {TopicSubscriber("a"), TopicSubscriber("b")}

\* The runtime starts from the registry ConverterRegistry::init builds
Init ==
    /\ converters = InitRegistry.converters
    /\ converters_by_ros_type = InitRegistry.converters_by_ros_type
    /\ generic_converters = InitRegistry.generic_converters
    /\ error_types = InitRegistry.error_types
    /\ try_from_calls = InitRegistry.try_from_calls
    /\ failure_logs = InitRegistry.failure_logs
    /\ regLog = <<StdStringToTextDocument, AnyToTextDocument>>
    /\ lastFind = None
    /\ lastQual = None
    /\ built = <<>>
    /\ InitTopology
    /\ loaded_config = Config_default
    /\ compiled = <<>>

Next ==
    \/ \E config \in RuntimeConfigs, fails \in EnvFailures :
          \E order \in Orders(DOMAIN config.streams) : Apply(config, order, fails)
    \/ \E id \in TopicIds, data \in BOOLEAN : OnMessage(id, data)
    \/ \E i \in 1..MaxMsgs, ch \in ChanIds : ConvTaskStep(i, ch)
    \/ \E ch \in ChanIds, failing \in SUBSET (1..MaxBatch) : SinkRecv(ch, failing)
    \/ \E ch \in ChanIds : SinkShutdown(ch)
    \/ \E flush_fails \in {{}} : DropWorkers(flush_fails)
    \/ DropTrigger

Spec == Init /\ [][Next]_vars

\* ------------------------------------------------------------------------
\* The registry under arbitrary registrations and lookups
\* ------------------------------------------------------------------------
InitReg ==
    /\ converters = EmptyMap
    /\ converters_by_ros_type = EmptyMap
    /\ generic_converters = EmptyMap
    /\ error_types = EmptyMap
    /\ try_from_calls = <<>>
    /\ failure_logs = <<>>
    /\ regLog = <<>>
    /\ lastFind = None
    /\ lastQual = None
    /\ built = <<>>
    /\ InitTopology
    /\ loaded_config = Config_default
    /\ compiled = <<>>

Register(c) ==
    /\ Len(regLog) < MaxRegs
    /\ \E r \in {register(Registry, c)} :
        /\ converters' = r.converters
        /\ converters_by_ros_type' = r.converters_by_ros_type
        /\ generic_converters' = r.generic_converters
        /\ error_types' = r.error_types
        /\ try_from_calls' = r.try_from_calls
        /\ failure_logs' = r.failure_logs
    /\ regLog' = Append(regLog, c)
    /\ lastFind' = None
    /\ lastQual' = None
    /\ UNCHANGED <<built, rtVars, parseVars>>

\* The names and types a lookup is asked for
FindNames == ProtoNames \cup {Components}
FindArgs(S) == {None} \cup {Some(x) : x \in S}

Find(ros_type, rerun_name) ==
    /\ lastFind' = Some([ros_type |-> ros_type, rerun_name |-> rerun_name,
                         result |-> find_converter(Registry, ros_type, rerun_name)])
    /\ lastQual' = None
    /\ UNCHANGED <<converters, converters_by_ros_type, generic_converters,
                   error_types, try_from_calls, failure_logs, regLog, built, rtVars, parseVars>>

Qualify(name) ==
    /\ regLog = <<>>
    /\ lastQual' = Some([name |-> name,
                         once |-> fully_qualified_name(name),
                         twice |-> fully_qualified_name(fully_qualified_name(name)),
                         ofPrefixed |-> fully_qualified_name(
                             [name EXCEPT !.name = ARCHETYPE_PREFIX \o @])])
    /\ lastFind' = None
    /\ UNCHANGED <<converters, converters_by_ros_type, generic_converters,
                   error_types, try_from_calls, failure_logs, regLog, built, rtVars, parseVars>>

NextReg ==
    \/ \E c \in Protos : Register(c)
    \/ \E t \in FindArgs(RosTypeStrings), n \in FindArgs(FindNames) : Find(t, n)
    \/ \E n \in RerunNames : Qualify(n)

SpecReg == InitReg /\ [][NextReg]_vars

\* ------------------------------------------------------------------------
\* ConverterBuilder::build on the registry ConverterRegistry::init builds
\* ------------------------------------------------------------------------
BuildTypes == {None, Some(STD_MSGS_STRING), Some(SENSOR_MSGS_IMAGE)}
BuildNames == {None, Some(RerunArchetype(<<"T">>)), Some(TEXT_DOCUMENT), Some(Components)}
BuildSettings == {None} \cup {Some(c) : c \in SettingsValues}

Build(ros_type, rerun_name, config) ==
    /\ Len(built) < MaxBuilds
    /\ \E b \in {ConverterBuilder_build_effects(Registry, built, ros_type,
                                                rerun_name, config)} :
        /\ converters' = b.registry.converters
        /\ converters_by_ros_type' = b.registry.converters_by_ros_type
        /\ generic_converters' = b.registry.generic_converters
        /\ error_types' = b.registry.error_types
        /\ try_from_calls' = b.registry.try_from_calls
        /\ failure_logs' = b.registry.failure_logs
        /\ built' = b.handed
    /\ lastFind' = None
    /\ lastQual' = None
    /\ UNCHANGED <<regLog, rtVars, parseVars>>

\* find_converter for the key of an earlier build
FindBuilt(i) ==
    /\ i \in 1..Len(built)
    /\ Find(built[i].ros_type, built[i].rerun_name)

NextBuild ==
    \/ \E t \in BuildTypes, n \in BuildNames, c \in BuildSettings : Build(t, n, c)
    \/ \E i \in 1..MaxBuilds : FindBuilt(i)

SpecBuild == Init /\ [][NextBuild]_vars

\* ------------------------------------------------------------------------
\* parse_topology_config on the configurations a file can declare
\* ------------------------------------------------------------------------
\* What an input list may name: a topic, streams, an undeclared component
InputNames == {"a", "s1", "s2", "zz"}
InputLists == SeqsUpTo(InputNames, MaxInputs)
ParseTopics == {[n \in S |-> GoodTopic] : S \in SUBSET {"a", "s1"}}
\* the stream that may share its name with topic "a" lists at most one input
ParseStreams ==
    UNION {{f \in [S -> {StreamConfig("url", i) : i \in InputLists}] :
                "a" \in S => Len(f["a"].inputs) <= 1} :
           S \in SUBSET {"a", "s1", "s2"}}
ParseDBs == {DBConfig("dir", <<>>), DBConfig("dir", <<"a", "zz", "s1">>)}
ParseConfigs == {Config(t, st, db) : t \in ParseTopics, st \in ParseStreams,
                                      db \in ParseDBs}

InitParse ==
    /\ converters = InitRegistry.converters
    /\ converters_by_ros_type = InitRegistry.converters_by_ros_type
    /\ generic_converters = InitRegistry.generic_converters
    /\ error_types = InitRegistry.error_types
    /\ try_from_calls = InitRegistry.try_from_calls
    /\ failure_logs = InitRegistry.failure_logs
    /\ regLog = <<StdStringToTextDocument, AnyToTextDocument>>
    /\ lastFind = None
    /\ lastQual = None
    /\ built = <<>>
    /\ InitTopology
    /\ loaded_config \in ParseConfigs
    /\ compiled = <<>>

\* One call of parse_topology_config(&config), the HashMap enumerating the
\* streams in `order`
Compile(order) ==
    /\ Len(compiled) < MaxCompiles
    /\ compiled' = Append(compiled,
                       [order |-> order,
                        result |-> parse_topology_config(loaded_config, order)])
    /\ UNCHANGED <<loaded_config, regVars, rtVars>>

NextParse == \E order \in Orders(DOMAIN loaded_config.streams) : Compile(order)

SpecParse == InitParse /\ [][NextParse]_vars

\* ------------------------------------------------------------------------
\* apply_config on the configurations that compile
\* ------------------------------------------------------------------------
NoTypeTopic == TopicSource("u", None, <<"T">>, NoSettings)
BadSettingsTopic == TopicSource("u", Some(STD_MSGS_STRING), <<"T">>, FieldIsInteger)
NoConverterTopic == TopicSource("u", Some(SENSOR_MSGS_IMAGE), <<"r">>, NoSettings)

ApplyConfigs == RuntimeConfigs \cup {
    \* a source declared without a source type
    Config(Topics2(GoodTopic, NoTypeTopic), Streams1(<<"a", "b">>),
           DBConfig("dir", <<"a">>)),
    \* a source whose converter rejects its settings, before a good one
    Config(Topics2(BadSettingsTopic, GoodTopic), Streams2(<<"a", "b">>, <<"b">>),
           DBConfig("dir", <<"b">>)),
    \* a source for which no converter resolves, after a good one
    Config(Topics2(GoodTopic, NoConverterTopic), Streams1(<<"a", "b">>),
           DBConfig("dir", <<"a", "b">>)),
    \* two sources that cannot be constructed
    Config(Topics2(MissingTypeTopic, BadSettingsTopic), Streams1(<<"a">>),
           DBConfig("dir", <<>>)),
    \* a source listed twice by one sink, and a source no sink lists
    Config(Topics2(GoodTopic, AnyTopic), Streams1(<<"a", "a">>),
           DBConfig("dir", <<"zz", "a">>)),
    \* no stream sink at all, and the default configuration
    Config(Topics1(GoodTopic), EmptyMap, DBConfig("dir", <<"a">>)),
    Config_default }

NextApply ==
    \E config \in ApplyConfigs, fails \in EnvFailures :
        \E order \in Orders(DOMAIN config.streams) : Apply(config, order, fails)

SpecApply == Init /\ [][NextApply]_vars

\* ------------------------------------------------------------------------
\* The sink run loops on whatever their inbound channels hold
\* ------------------------------------------------------------------------
\* struct LogComponents, and the four kinds of enum LogData
LogComponents(n) == [msg |-> n, entity_path |-> "t"]
SinkPackets ==
    {[kind |-> "Archetype", units |-> <<LogComponents(1)>>],
     [kind |-> "AnyComponents", units |-> <<LogComponents(2)>>]}
    \cup {[kind |-> k, units |-> [i \in 1..n |-> LogComponents(2 + i)]] :
              k \in {"ArchetypeArray", "AnyComponentsArray"}, n \in 0..MaxBatch}
SinkQueues == SeqsUpTo(SinkPackets, MaxQueue)

\* A topology with one source, one stream sink and the archive
SinkConfig == Config(Topics1(GoodTopic), Streams1(<<"a">>), DBConfig("dir", <<"a">>))
SinkTopology ==
    apply_config([topic_subscriptions |-> EmptyMap, grpc_sinks |-> EmptyMap,
                  db_sink |-> None, edges |-> EmptyMap, shutdown_trigger |-> None],
                 parse_topology_config(SinkConfig, <<"s1">>).val, InitRegistry, 1, {})

\* The state after SinkConfig was applied, with packets on the channels
InitSink ==
    /\ converters = InitRegistry.converters
    /\ converters_by_ros_type = InitRegistry.converters_by_ros_type
    /\ generic_converters = InitRegistry.generic_converters
    /\ error_types = InitRegistry.error_types
    /\ try_from_calls = InitRegistry.try_from_calls
    /\ failure_logs = InitRegistry.failure_logs
    /\ regLog = <<StdStringToTextDocument, AnyToTextDocument>>
    /\ lastFind = None
    /\ lastQual = None
    /\ built = <<>>
    /\ loaded_config = Config_default
    /\ compiled = <<>>
    /\ \E r \in {SinkTopology} :
        /\ topic_subscriptions = r.state.topic_subscriptions
        /\ grpc_sinks = r.state.grpc_sinks
        /\ db_sink = r.state.db_sink
        /\ edges = r.state.edges
        /\ shutdown_trigger = r.state.shutdown_trigger
        /\ tripped = {}
        /\ \E q \in [r.created -> SinkQueues] :
              chans = [ch \in r.created |-> [queue |-> q[ch], open |-> TRUE]]
        /\ sinkTasks = [ch \in r.spawned |->
                           SinkTask]
        /\ applied = <<[config |-> SinkConfig, result |-> r.result]>>
    /\ tasks = <<>>
    /\ dropPhase = "alive"

NextSink ==
    \/ \E ch \in ChanIds, failing \in SUBSET (1..MaxBatch) : SinkRecv(ch, failing)
    \/ \E ch \in ChanIds : SinkShutdown(ch)
    \/ \E flush_fails \in SUBSET ChanIds : DropWorkers(flush_fails)
    \/ DropTrigger

SpecSink == InitSink /\ [][NextSink]_vars

\* The scheduler's share: select! polls its ready branches in random order, so
\* a run loop whose shutdown signal has fired does not pass it over for ever.
SpecLive == Spec /\ \A ch \in ChanIds : WF_vars(SinkShutdown(ch))

\* The scheduler's share for the conversion tasks: every task is spawned on
\* its own (worker.rs 67) and a task that can run is run in the end.  The task
\* of the first message is left out: it may be slow for ever.
SpecMsgLive ==
    Spec /\ \A i \in 2..MaxMsgs, ch \in ChanIds : WF_vars(ConvTaskStep(i, ch))

\* ------------------------------------------------------------------------
\* What the declared topology says the channels must carry
\* ------------------------------------------------------------------------
\* The input list a configuration declares for a sink
InputsOf(config, sink) ==
    IF sink = DBSink THEN Range(config.db.inputs)
    ELSE IF sink[2] \in DOMAIN config.streams
    THEN Range(config.streams[sink[2]].inputs)
    ELSE {}

\* How many log units of message m a sequence of log units holds
UnitsOf(units, m) == Cardinality({k \in 1..Len(units) : units[k].msg = m})
\* ... and how many a queue of packets holds
QueuedOf(queue, m) ==
    Cardinality({k \in 1..Len(queue) : UnitsOf(queue[k].units, m) > 0})
\* The packets of message m that were put on channel ch: those still queued
\* and those its sink has taken
Enqueued(m, ch) ==
    IF ch \in DOMAIN chans
    THEN QueuedOf(chans[ch].queue, m)
         + (IF ch \in DOMAIN sinkTasks THEN UnitsOf(sinkTasks[ch].logged, m) ELSE 0)
    ELSE 0

\* The conversion task of message i has run to its end
TaskDone(i) == tasks[i].pending = {}
Converts(i) == convert_view(tasks[i].worker.converter, tasks[i].msg)
\* The first apply succeeded on the empty state and its topology is running
FirstApplyRuns ==
    /\ Len(applied) = 1
    /\ applied[1].result.ok
    /\ 1 \notin tripped

\* C1: after an apply on the empty state, a message of source S whose
\* conversion succeeds puts exactly one packet on the channel of every sink
\* whose declared input list holds S and none on the channel of any other sink.
C1_FanOutExactlyOnce ==
    FirstApplyRuns =>
        \A i \in 1..Len(tasks) :
            (TaskDone(i) /\ Converts(i)) =>
                \A sink \in SinkIds :
                    Enqueued(i, Chan(1, sink)) =
                        IF tasks[i].worker.id[2] \in InputsOf(applied[1].config, sink)
                        THEN 1 ELSE 0

C1_Witness ==
    /\ FirstApplyRuns
    /\ \E i \in 1..Len(tasks) :
          /\ TaskDone(i) /\ Converts(i)
          /\ Enqueued(i, Chan(1, GRPCSink("s1"))) = 1
          /\ Enqueued(i, Chan(1, GRPCSink("s2"))) = 1
          /\ Chan(1, DBSink) \in DOMAIN chans
          /\ Enqueued(i, Chan(1, DBSink)) = 0

\* C2: when the receiving half of a sink's channel is gone, a message of a
\* source that feeds that sink and others still reaches every other sink
\* exactly once: the conversion task records the failed send and goes on, it
\* fails on closed channels only, and a task that has sends left can take its
\* next step.
C2_DeadSinkDoesNotStopOthers ==
    \A i \in 1..Len(tasks) :
        /\ tasks[i].pending # {} => \E ch \in tasks[i].pending : ENABLED ConvTaskStep(i, ch)
        /\ \A ch \in tasks[i].failed : ~chans[ch].open
        /\ (TaskDone(i) /\ Converts(i)) =>
              \A ch \in tasks[i].worker.tx :
                  chans[ch].open => Enqueued(i, ch) = 1

C2_Witness ==
    \E i \in 1..Len(tasks) :
        /\ TaskDone(i) /\ Converts(i)
        /\ tasks[i].failed # {}
        /\ \E ch \in tasks[i].worker.tx : chans[ch].open /\ Enqueued(i, ch) = 1

\* C3: once the shutdown signal of an apply has fired, every sink run loop
\* that apply spawned comes to its end, whatever is queued on its channel and
\* whoever is still sending.
C3_SinksExitAfterShutdown ==
    \A ch \in ChanIds :
        (ch \in DOMAIN sinkTasks /\ ChanGen(ch) \in tripped)
            ~> (ch \in DOMAIN sinkTasks /\ sinkTasks[ch].state = "Stopped")

C3_Witness ==
    \E ch \in DOMAIN sinkTasks :
        /\ sinkTasks[ch].state = "Stopped"
        /\ \E i \in 1..Len(tasks) : ch \in tasks[i].failed \cup tasks[i].pending

\* C4: after the shutdown signal of its apply has fired, a sink hands no
\* further packet to its backend.
C4_NoDispatchAfterShutdown ==
    [][\A ch \in DOMAIN sinkTasks :
          ChanGen(ch) \in tripped => sinkTasks'[ch].logged = sinkTasks[ch].logged]_vars

\* C5: an apply that returns an error leaves the TopologyState as it was and
\* fires no shutdown signal.
C5_ApplyAllOrNothing ==
    [][(/\ Len(applied') = Len(applied) + 1
        /\ ~applied'[Len(applied')].result.ok
        /\ ~IsPanic(applied'[Len(applied')].result))
       => (UNCHANGED topoVars /\ tripped' = tripped)]_vars

\* ------------------------------------------------------------------------
\* What the history of registrations says the registry must answer
\* ------------------------------------------------------------------------
\* The registrations that passed schema validation for source type t
SpecificRegs(t) ==
    {i \in 1..Len(regLog) : regLog[i].ros_type = Some(t) /\ t \in InstalledTypes}
SpecificRegsUnder(t, name) == {i \in SpecificRegs(t) : regLog[i].rerun_name = name}
GenericRegsUnder(name) ==
    {i \in 1..Len(regLog) : regLog[i].ros_type = None /\ regLog[i].rerun_name = name}
Earliest(S) == CHOOSE i \in S : \A j \in S : i <= j
Latest(S) == CHOOSE i \in S : \A j \in S : j <= i

FindWas(t, n) ==
    /\ lastFind # None
    /\ Unwrap(lastFind).ros_type = t
    /\ Unwrap(lastFind).rerun_name = n
FindResult == Unwrap(lastFind).result

\* C6: once a T-specific converter and a generic converter have both been
\* registered under a target A, in either order, find_converter(Some(T), Some(A))
\* returns a T-specific converter registered under A, never the generic one.
C6_SpecificBeatsGeneric ==
    \A t \in RosTypeStrings, a \in FindNames :
        (/\ FindWas(Some(t), Some(a))
         /\ SpecificRegsUnder(t, a) # {}
         /\ GenericRegsUnder(a) # {})
        => /\ FindResult.ok
           /\ FindResult.val.ros_type = Some(t)
           /\ FindResult.val.rerun_name = a

\* C7: find_converter(Some(T), Some(A)) with nothing registered for
\* (T, qualified A) returns the generic converter registered for qualified A if
\* there is one and otherwise fails with UnsupportedConversion{qualified A, T};
\* whatever it returns was registered for the qualified A and for T or for any type.
C7_FallbackToGeneric ==
    \A t \in RosTypeStrings, a \in FindNames :
        FindWas(Some(t), Some(a)) =>
            LET qa == fully_qualified_name(a) IN
            /\ SpecificRegsUnder(t, qa) = {} =>
                  IF GenericRegsUnder(qa) # {}
                  THEN FindResult = Ok(regLog[Latest(GenericRegsUnder(qa))])
                  ELSE FindResult =
                         UnsupportedConversion(qa, Some(ROSTypeName_to_string(t)))
            /\ FindResult.ok =>
                  /\ FindResult.val.rerun_name = qa
                  /\ FindResult.val.ros_type \in {Some(t), None}
                  /\ \E i \in 1..Len(regLog) : regLog[i] = FindResult.val

C7_Witness ==
    /\ \E t \in RosTypeStrings :
          /\ FindWas(Some(t), Some(RerunArchetype(<<"T">>)))
          /\ SpecificRegsUnder(t, TEXT_DOCUMENT) = {}
          /\ \E u \in RosTypeStrings \ {t} : SpecificRegsUnder(u, TEXT_DOCUMENT) # {}
    /\ GenericRegsUnder(TEXT_DOCUMENT) # {}
    /\ FindResult.ok
    /\ FindResult.val.ros_type = None

\* C8: find_converter(Some(T), None) returns the first converter that was
\* registered successfully for T, never a generic one, and fails with
\* UnsupportedConversion{"<ANY>", T} if there is none.
C8_DefaultIsFirstSpecific ==
    \A t \in RosTypeStrings :
        FindWas(Some(t), None) =>
            IF SpecificRegs(t) # {}
            THEN FindResult = Ok(regLog[Earliest(SpecificRegs(t))])
            ELSE FindResult = UnsupportedConversion(RerunArchetype(ANY_NAME),
                                                    Some(ROSTypeName_to_string(t)))

C8_Witness ==
    /\ FindWas(Some(STD_MSGS_STRING), None)
    /\ Cardinality(SpecificRegs(STD_MSGS_STRING)) >= 2
    /\ regLog[Earliest(SpecificRegs(STD_MSGS_STRING))]
         # regLog[Latest(SpecificRegs(STD_MSGS_STRING))]
    /\ \E i \in 1..Len(regLog) : regLog[i].ros_type = None
    /\ FindResult.ok

\* C9: find_converter(None, Some(A)) returns the generic converter registered
\* under the qualified A, and fails with UnsupportedConversion{qualified A, None}
\* if there is none, type-specific converters for that target or not;
\* find_converter(None, None) fails with UnsupportedConversion{"<ANY>", None}.
C9_NoSourceType ==
    /\ \A a \in FindNames :
          FindWas(None, Some(a)) =>
              LET qa == fully_qualified_name(a) IN
              IF GenericRegsUnder(qa) # {}
              THEN FindResult = Ok(regLog[Latest(GenericRegsUnder(qa))])
              ELSE FindResult = UnsupportedConversion(qa, None)
    /\ FindWas(None, None) =>
          FindResult = UnsupportedConversion(RerunArchetype(ANY_NAME), None)

C9_Witness ==
    /\ FindWas(None, Some(RerunArchetype(<<"T">>)))
    /\ GenericRegsUnder(TEXT_DOCUMENT) = {}
    /\ SpecificRegsUnder(STD_MSGS_STRING, TEXT_DOCUMENT) # {}
    /\ ~FindResult.ok

\* C10: fully_qualified_name is idempotent: qualifying twice equals qualifying
\* once, an unqualified archetype name and its prefixed form qualify to the
\* same name, and the ROS-archetype and components variants come back unchanged.
C10_QualifyIdempotent ==
    lastQual # None =>
        LET q == Unwrap(lastQual) IN
        /\ q.twice = q.once
        /\ (q.name.tag = "RerunArchetype" /\ ~starts_with(q.name.name, ARCHETYPE_PREFIX))
              => /\ q.once = RerunArchetype(ARCHETYPE_PREFIX \o q.name.name)
                 /\ q.ofPrefixed = q.once
        /\ (q.name.tag = "RerunArchetype" /\ starts_with(q.name.name, ARCHETYPE_PREFIX))
              => q.once = q.name
        /\ q.name.tag # "RerunArchetype" => q.once = q.name

C10_Witness ==
    /\ lastQual # None
    /\ Unwrap(lastQual).name = RerunArchetype(<<"T">>)
    /\ Unwrap(lastQual).once = TEXT_DOCUMENT

\* The registrations for source type t, or generic ones, whose declared
\* name qualifies to the name qa
SpecificRegsQualifyingTo(t, qa) ==
    {i \in SpecificRegs(t) : fully_qualified_name(regLog[i].rerun_name) = qa}
GenericRegsQualifyingTo(qa) ==
    {i \in 1..Len(regLog) :
        regLog[i].ros_type = None /\ fully_qualified_name(regLog[i].rerun_name) = qa}

\* C11: names are qualified alike at registration and at lookup: a converter
\* that declares its target as an unqualified archetype name A, registered
\* for a validated type T or as a generic one, is what find_converter returns
\* for the target A and for the qualified form of A (the latest such
\* registration, when several declare a form of A).
C11_QualifiedAlike ==
    \A a \in {RerunArchetype(<<"T">>), TEXT_DOCUMENT} :
        /\ \A t \in RosTypeStrings :
              (/\ FindWas(Some(t), Some(a))
               /\ SpecificRegsUnder(t, RerunArchetype(<<"T">>)) # {})
              => FindResult =
                   Ok(regLog[Latest(SpecificRegsQualifyingTo(t, TEXT_DOCUMENT))])
        /\ (/\ FindWas(None, Some(a))
            /\ GenericRegsUnder(RerunArchetype(<<"T">>)) # {})
           => FindResult = Ok(regLog[Latest(GenericRegsQualifyingTo(TEXT_DOCUMENT))])

\* The registrations whose declared source type fails validation, and the
\* raw strings of those types
FailedRegs ==
    {i \in 1..Len(regLog) :
        IsSome(regLog[i].ros_type) /\ Unwrap(regLog[i].ros_type) \notin InstalledTypes}
FailedString(i) == ROSTypeString_to_string(Unwrap(regLog[i].ros_type))
FailedStrings == {FailedString(i) : i \in FailedRegs}
Occurrences(q, x) == Cardinality({k \in 1..Len(q) : q[k] = x})

\* C12: a registration whose source type fails validation leaves the exact,
\* default and generic indexes to the other registrations, and the memo of
\* failed types holds, under the raw string of the type, the error of the
\* first such registration; the failure is recorded and reported once, later
\* failures for the same string change nothing.
C12_FailedRegistrationMemoized ==
    /\ DOMAIN error_types = FailedStrings
    /\ \A i \in FailedRegs :
          error_types[FailedString(i)] =
              ROSTypeName_try_from(Unwrap(regLog[
                  Earliest({j \in FailedRegs : FailedString(j) = FailedString(i)})
              ].ros_type)).err
    /\ \A x \in FailedStrings : Occurrences(failure_logs, x) = 1
    /\ DOMAIN converters =
          {<<Unwrap(regLog[i].ros_type), regLog[i].rerun_name>> :
              i \in {j \in 1..Len(regLog) \ FailedRegs : IsSome(regLog[j].ros_type)}}
    /\ DOMAIN converters_by_ros_type =
          {Unwrap(regLog[i].ros_type) :
              i \in {j \in 1..Len(regLog) \ FailedRegs : IsSome(regLog[j].ros_type)}}
    /\ DOMAIN generic_converters =
          {regLog[i].rerun_name : i \in {j \in 1..Len(regLog) : regLog[j].ros_type = None}}

C12_Witness ==
    /\ Cardinality(FailedRegs) >= 2
    /\ \E i, j \in FailedRegs : regLog[i] # regLog[j]
    /\ Len(regLog) > Cardinality(FailedRegs)
    /\ MISSING_TYPE \notin DOMAIN converters_by_ros_type
    /\ ROSTypeString_to_string(MISSING_TYPE) \in DOMAIN error_types

\* C13: validation is attempted at most once for a source-type string that
\* fails it, however many registrations declare it.
C13_ValidatedOncePerFailingType ==
    \A t \in RosTypeStrings \ InstalledTypes : Occurrences(try_from_calls, t) <= 1

\* The part of the variables that is the ConverterRegistry
registryVars == <<converters, converters_by_ros_type, generic_converters, error_types>>

\* C14: find_converter and build leave the registry as it is and hand out
\* copies: a build changes no converter handed out before, and whatever is
\* then found is a prototype as it was registered, not one a caller configured.
C14_ResolveHandsOutCopies ==
    [][/\ (built' # built \/ lastFind' # lastFind) => UNCHANGED registryVars
       /\ Len(built') >= Len(built)
       /\ \A i \in 1..Len(built) : built'[i] = built[i]
       /\ (lastFind' # None /\ Unwrap(lastFind').result.ok)
             => \E k \in 1..Len(regLog') : regLog'[k] = Unwrap(lastFind').result.val]_vars

C14_Witness ==
    /\ Len(built) = 2
    /\ built[1].ros_type = built[2].ros_type
    /\ built[1].rerun_name = built[2].rerun_name
    /\ built[1].config = Some(FieldIsString)
    /\ built[1].result.ok
    /\ built[1].result.val.config.field = Some("data")
    /\ built[2].result.ok
    /\ built[2].result.val.config = Unconfigured
    /\ FindWas(built[1].ros_type, built[1].rerun_name)
    /\ FindResult = Ok(AnyToTextDocument)

\* C15: a converter that build returns had set_config called exactly once,
\* with the builder's settings, and the call succeeded; build returns an
\* error exactly when the lookup fails or the converter rejects the settings.
C15_ConfiguredExactlyOnce ==
    \A i \in 1..Len(built) :
        LET b == built[i]
            found == find_converter(Registry, b.ros_type, b.rerun_name)
        IN /\ b.result.ok =>
                /\ Len(b.set_config_calls) = 1
                /\ b.config = Some(b.set_config_calls[1])
                /\ set_config(found.val, b.set_config_calls[1]).ok
           /\ ~b.result.ok <=>
                \/ ~found.ok
                \/ IsSome(b.config) /\ ~set_config(found.val, Unwrap(b.config)).ok

\* ------------------------------------------------------------------------
\* Compiling a configuration
\* ------------------------------------------------------------------------
\* The names declared both for a topic source and for a stream sink
SharedNames(config) == (DOMAIN config.topics) \cap (DOMAIN config.streams)
\* Stream sink s lists the name x as an input
Lists(config, s, x) == s \in DOMAIN config.streams /\ x \in Range(config.streams[s].inputs)
\* The stream sinks that list their own name
SelfListing(config) == {s \in DOMAIN config.streams : Lists(config, s, s)}
\* The pairs (s, x): stream sink s lists another declared stream sink x
CrossListing(config) ==
    {p \in (DOMAIN config.streams) \X (DOMAIN config.streams) :
        p[1] # p[2] /\ Lists(config, p[1], p[2])}

\* C16: whenever a topic source and a stream sink are declared with the same
\* name n, every compilation fails; when that is the configuration's only
\* defect (one shared name, no stream sink listing a stream sink), the error
\* is DuplicateID(n).
C16_SharedNameIsDuplicateID ==
    \A i \in 1..Len(compiled) :
        SharedNames(loaded_config) # {} =>
            /\ ~compiled[i].result.ok
            /\ \A n \in SharedNames(loaded_config) :
                  (/\ SharedNames(loaded_config) = {n}
                   /\ SelfListing(loaded_config) = {}
                   /\ CrossListing(loaded_config) = {})
                  => compiled[i].result = DuplicateID(n)

\* A configuration whose only defect is the name "a", shared by a topic and a
\* stream sink that stands beside another stream sink, has been compiled.
C16_Witness ==
    /\ SharedNames(loaded_config) = {"a"}
    /\ DOMAIN loaded_config.streams = {"a", "s1"}
    /\ loaded_config.streams["a"].inputs = <<"zz">>
    /\ loaded_config.streams["s1"].inputs = <<"zz">>
    /\ SelfListing(loaded_config) = {}
    /\ CrossListing(loaded_config) = {}
    /\ Len(compiled) = MaxCompiles
    /\ compiled[1].result = DuplicateID("a")

\* C17: a stream sink whose input list contains its own name, at any position
\* and beside any other inputs, makes every compilation fail; when that is the
\* configuration's only defect (no shared name, no other stream sink listing a
\* stream sink), the error is SelfReference carrying that sink's GRPCSink ID.
C17_OwnNameIsSelfReference ==
    \A i \in 1..Len(compiled) :
        \A s \in SelfListing(loaded_config) :
            /\ ~compiled[i].result.ok
            /\ (/\ SharedNames(loaded_config) = {}
                /\ SelfListing(loaded_config) = {s}
                /\ CrossListing(loaded_config) = {})
               => compiled[i].result = SelfReference(GRPCSink(s))

\* Stream sink s2, enumerated after s1, lists a topic and then itself; that is
\* the only defect, and the configuration has been compiled.
C17_Witness ==
    /\ DOMAIN loaded_config.topics = {"a"}
    /\ DOMAIN loaded_config.streams = {"s1", "s2"}
    /\ loaded_config.streams["s1"].inputs = <<"a", "zz">>
    /\ loaded_config.streams["s2"].inputs = <<"a", "s2">>
    /\ Len(compiled) >= 1
    /\ compiled[1].order = <<"s1", "s2">>
    /\ compiled[1].result = SelfReference(GRPCSink("s2"))

\* The names an input list of the configuration gives that nothing declares
Undeclared(config) ==
    (UNION {Range(config.streams[s].inputs) : s \in DOMAIN config.streams}
        \cup Range(config.db.inputs))
    \ ((DOMAIN config.topics) \cup (DOMAIN config.streams))

\* C18: every compilation succeeds of a configuration in which no topic and
\* stream share a name and no stream sink lists a stream sink; among them the
\* default empty configuration, streams without inputs, and input lists of
\* stream sinks and of the archive naming undeclared components.  The compiled
\* topology holds the declared topics and stream sinks.
C18_SoundConfigCompiles ==
    \A i \in 1..Len(compiled) :
        (/\ SharedNames(loaded_config) = {}
         /\ SelfListing(loaded_config) = {}
         /\ CrossListing(loaded_config) = {})
        => /\ compiled[i].result.ok
           /\ DOMAIN compiled[i].result.val.topic_subscriptions
                  = {TopicSubscriber(n) : n \in DOMAIN loaded_config.topics}
           /\ DOMAIN compiled[i].result.val.grpc_sinks
                  = {GRPCSink(n) : n \in DOMAIN loaded_config.streams}

\* A configuration with a stream sink without inputs, another listing a topic
\* and an undeclared name, and an archive listing an undeclared name has been
\* compiled with success.
C18_Witness ==
    /\ DOMAIN loaded_config.topics = {"a"}
    /\ DOMAIN loaded_config.streams = {"s1", "s2"}
    /\ loaded_config.streams["s1"].inputs = <<>>
    /\ loaded_config.streams["s2"].inputs = <<"zz", "a">>
    /\ "zz" \in Range(loaded_config.db.inputs)
    /\ "zz" \in Undeclared(loaded_config)
    /\ Len(compiled) >= 1
    /\ compiled[1].result.ok
    /\ compiled[1].result.val.edges[GRPCSink("s2")] = <<TopicSubscriber("a")>>

\* C19: a stream sink whose input list names a different declared stream sink
\* (a name no topic bears) makes every compilation fail with SelfReference, in
\* whichever order the streams are enumerated.
C19_OtherSinkIsSelfReference ==
    \A i \in 1..Len(compiled) :
        (\E p \in CrossListing(loaded_config) : p[2] \notin DOMAIN loaded_config.topics)
        => /\ ~compiled[i].result.ok
           /\ compiled[i].result.err.kind = "SelfReference"

\* C20: the outcome of a compilation is a function of the configuration's
\* content alone: any two compilations of one configuration return the same
\* TopologyConfig, or the same error with the same payload.
C20_CompileIsDeterministic ==
    \A i, j \in 1..Len(compiled) : compiled[i].result = compiled[j].result

\* C21: duplicate-ID checks run before self-reference checks: a configuration
\* that holds both a name shared by a topic and a stream and a stream sink
\* listing a stream sink fails with DuplicateID, not with SelfReference.
C21_DuplicateBeforeSelfReference ==
    \A i \in 1..Len(compiled) :
        (/\ SharedNames(loaded_config) # {}
         /\ SelfListing(loaded_config) \cup CrossListing(loaded_config) # {})
        => /\ ~compiled[i].result.ok
           /\ compiled[i].result.err.kind = "DuplicateID"

\* The topic-source and stream-sink names a TopologyConfig holds
TopicNamesOf(topo) == {id[2] : id \in DOMAIN topo.topic_subscriptions}
StreamNamesOf(topo) == {id[2] : id \in DOMAIN topo.grpc_sinks}

\* C22: for every configuration that compiles, the topic-source names and the
\* stream-sink names re-derived from the TopologyConfig are the declared topic
\* and stream names, nothing added and nothing lost; and every key is of the
\* variant of its map.
C22_NamesRoundTrip ==
    \A i \in 1..Len(compiled) :
        compiled[i].result.ok =>
            /\ TopicNamesOf(compiled[i].result.val) = DOMAIN loaded_config.topics
            /\ StreamNamesOf(compiled[i].result.val) = DOMAIN loaded_config.streams
            /\ \A id \in DOMAIN compiled[i].result.val.topic_subscriptions :
                  id[1] = "TopicSubscriber"
            /\ \A id \in DOMAIN compiled[i].result.val.grpc_sinks : id[1] = "GRPCSink"

\* A configuration with a topic and two stream sinks, one of them without an
\* edge and listing the other, has compiled (the listed sink was enumerated
\* later).
C22_Witness ==
    /\ DOMAIN loaded_config.topics = {"a"}
    /\ DOMAIN loaded_config.streams = {"s1", "s2"}
    /\ loaded_config.streams["s1"].inputs = <<"s2", "zz">>
    /\ loaded_config.streams["s2"].inputs = <<"a">>
    /\ Len(compiled) >= 1
    /\ compiled[1].result.ok
    /\ StreamNamesOf(compiled[1].result.val) = {"s1", "s2"}

\* ------------------------------------------------------------------------
\* Applying a compiled configuration
\* ------------------------------------------------------------------------
\* What SubscriptionWorker::new gives for the declared source n of a config
WorkerFor(config, n) ==
    SubscriptionWorker_new(0, TopicSubscriber(n), config.topics[n], Registry, {}, FALSE)
\* The sources whose worker cannot be constructed, and the first of them in
\* the order of the ComponentIDs
NotConstructed(config) ==
    {TopicSubscriber(n) : n \in {x \in DOMAIN config.topics : ~WorkerFor(config, x).ok}}
\* The sinks a configuration declares
DeclaredSinks(config) == {GRPCSink(n) : n \in DOMAIN config.streams} \cup {DBSink}
\* The sink workers the g-th apply constructed or spawned
SinkWorkersOf(g) ==
    {id \in SinkIds : Chan(g, id) \in DOMAIN sinkTasks}
    \cup {id \in DOMAIN grpc_sinks : grpc_sinks[id].gen = g}
    \cup (IF IsSome(db_sink) /\ Unwrap(db_sink).gen = g THEN {DBSink} ELSE {})

\* C23: when the construction of a source's subscription worker fails with an
\* error (the source type fails validation, no converter resolves, or the
\* converter rejects the settings), the apply returned InitializationError
\* carrying that source's ComponentID (the first such source in the order of
\* the ComponentIDs), and constructed and spawned no sink worker.
C23_SourceFailureAbortsApply ==
    \A g \in 1..Len(applied) :
        LET bad == NotConstructed(applied[g].config) IN
        (bad # {} /\ ~IsPanic(WorkerFor(applied[g].config, FirstId(bad)[2])))
        => /\ applied[g].result = InitializationError(FirstId(bad))
           /\ SinkWorkersOf(g) = {}

\* The second apply had a good source "a" and a source "b" for which no
\* converter resolves; it returned InitializationError for "b", after a first
\* apply that succeeded and whose sink workers are there.
C23_Witness ==
    /\ Len(applied) = 2
    /\ applied[1].result.ok
    /\ SinkWorkersOf(1) # {}
    /\ applied[2].config.topics = Topics2(GoodTopic, NoConverterTopic)
    /\ applied[2].result = InitializationError(TopicSubscriber("b"))

\* C24: for every TopologyConfig the compiler produces, apply returns success
\* or a TopologyConfigError; it never aborts by panic.
C24_ApplyNeverPanics ==
    \A g \in 1..Len(applied) : ~IsPanic(applied[g].result)

\* C25: apply creates one channel for every declared sink, each stream sink
\* whatever its input list and the archive, and when the apply succeeds the
\* receiving half is with that sink's run loop.
C25_OneChannelPerDeclaredSink ==
    \A g \in 1..Len(applied) :
        \A id \in DeclaredSinks(applied[g].config) :
            /\ Chan(g, id) \in DOMAIN chans
            /\ applied[g].result.ok => Chan(g, id) \in DOMAIN sinkTasks

\* ------------------------------------------------------------------------
\* The sink workers
\* ------------------------------------------------------------------------
\* C26: a sink worker moves only forward: its run loop leaves Running only
\* when its shutdown signal has fired (an empty or closed inbound channel does
\* not stop it), and once stopped it makes no log call again and is never
\* restarted or forgotten.
C26_SinkMovesForward ==
    [][\A ch \in DOMAIN sinkTasks :
          /\ ch \in DOMAIN sinkTasks'
          /\ (sinkTasks[ch].state = "Running" /\ sinkTasks'[ch].state # "Running")
             => (sinkTasks'[ch].state = "Stopped" /\ ChanGen(ch) \in tripped)
          /\ sinkTasks[ch].state = "Stopped"
             => /\ sinkTasks'[ch].state = "Stopped"
                /\ sinkTasks'[ch].logged = sinkTasks[ch].logged
                /\ sinkTasks'[ch].log_errors = sinkTasks[ch].log_errors]_vars

\* A run loop has stopped after logging, another one is still running on an
\* empty channel, and a later apply has spawned new run loops.
C26_Witness ==
    /\ \E ch \in DOMAIN sinkTasks :
          sinkTasks[ch].state = "Stopped" /\ sinkTasks[ch].logged # <<>>
    /\ \E ch \in DOMAIN sinkTasks :
          /\ sinkTasks[ch].state = "Running" /\ chans[ch].queue = <<>>
          /\ ChanGen(ch) = 1
    /\ Len(applied) = 2

\* C27: a failed backend log call does not change a sink worker's state: the
\* step that meets the failure makes the log call for every unit of the packet,
\* those after the failed one too, takes the packet off the channel and leaves
\* the worker Running, and a Running worker with a queued packet can always
\* take it.
C27_LogFailureIsSurvived ==
    /\ [][\A ch \in DOMAIN sinkTasks :
             sinkTasks'[ch].log_errors # sinkTasks[ch].log_errors
             => /\ sinkTasks'[ch].state = "Running"
                /\ sinkTasks'[ch].logged =
                      sinkTasks[ch].logged \o dispatch(Head(chans[ch].queue))
                /\ chans'[ch].queue = Tail(chans[ch].queue)
                /\ chans'[ch].open]_vars
    /\ [](\A ch \in DOMAIN sinkTasks :
             (sinkTasks[ch].state = "Running" /\ chans[ch].queue # <<>>)
             => ENABLED SinkRecv(ch, {}))

\* The first unit of a batch of two failed, the second was logged, and so was
\* the packet queued behind the batch.
C27_Witness ==
    \E ch \in DOMAIN sinkTasks :
        /\ sinkTasks[ch].state = "Running"
        /\ sinkTasks[ch].log_errors = <<LogComponents(3)>>
        /\ sinkTasks[ch].logged = <<LogComponents(3), LogComponents(4), LogComponents(1)>>

\* ------------------------------------------------------------------------
\* Messages whose conversion fails
\* ------------------------------------------------------------------------
\* C28: a message whose conversion fails puts no packet on any channel, and a
\* step of its conversion task changes no channel, no subscription and no
\* other message's task, so that messages before and after it on the topic are
\* delivered as they would be without it.
C28_FailedConversionIsLocal ==
    /\ [](\A i \in 1..Len(tasks) :
             ~Converts(i) =>
                 /\ tasks[i].failed = {}
                 /\ \A ch \in DOMAIN chans : Enqueued(tasks[i].msg.id, ch) = 0)
    /\ [][\A i \in 1..Len(tasks) :
             (~Converts(i) /\ tasks'[i] # tasks[i])
             => /\ chans' = chans
                /\ UNCHANGED <<topoVars, sinkTasks, tripped, dropPhase>>
                /\ Len(tasks') = Len(tasks)
                /\ \A j \in 1..Len(tasks) : j # i => tasks'[j] = tasks[j]
                /\ tasks'[i].worker = tasks[i].worker]_vars

\* The first message on a topic failed to convert and its task has run over
\* both channels of the source; the message after it on the same topic was
\* converted and is on both channels.
C28_Witness ==
    /\ Len(tasks) = 2
    /\ ~Converts(1) /\ TaskDone(1) /\ Cardinality(tasks[1].worker.tx) = 2
    /\ Converts(2) /\ TaskDone(2) /\ tasks[2].worker = tasks[1].worker
    /\ \A ch \in tasks[2].worker.tx : Enqueued(2, ch) = 1
    /\ tasks[1].worker.id \in DOMAIN topic_subscriptions
    /\ topic_subscriptions[tasks[1].worker.id] = tasks[1].worker

\* ------------------------------------------------------------------------
\* Teardown
\* ------------------------------------------------------------------------
\* C29: on every teardown path, the drop of the TopologyState and a new
\* apply, each subscription handle of the old topology is dropped no later
\* than the old shutdown signal fires: as long as no apply has panicked, no
\* subscription is held whose apply's signal has fired.
C29_SourcesDroppedBeforeSignal ==
    (\A g \in 1..Len(applied) : ~IsPanic(applied[g].result))
    => \A id \in DOMAIN topic_subscriptions : topic_subscriptions[id].gen \notin tripped

\* C30: a conversion task that is slow or never ends for one message does not
\* hold up a later message: the later message, when its conversion succeeds,
\* is in the end on the channel of every sink of its source that still
\* receives, whether or not the first message's task ever takes a step.
C30_SlowTaskDoesNotBlock ==
    \A i \in 2..MaxMsgs :
        (Len(tasks) >= i /\ Converts(i))
        ~> (/\ Len(tasks) >= i
            /\ TaskDone(i)
            /\ \A ch \in tasks[i].worker.tx : chans[ch].open => Enqueued(i, ch) = 1)

\* The second message of a topic is on both channels of its source while the
\* task of the first message has not taken a step.
C30_Witness ==
    /\ Len(tasks) = 2
    /\ tasks[2].worker = tasks[1].worker
    /\ Cardinality(tasks[1].worker.tx) = 2
    /\ tasks[1].pending = tasks[1].worker.tx
    /\ Converts(2) /\ TaskDone(2)
    /\ \A ch \in tasks[2].worker.tx : chans[ch].open /\ Enqueued(2, ch) = 1

\* ------------------------------------------------------------------------
\* Fan-out and order
\* ------------------------------------------------------------------------
\* C31: after an apply on the empty state, the sending halves held by the
\* subscription worker of every source S are the channels of the sinks whose
\* declared input list includes S, each channel once however often S is
\* listed; a source no sink lists holds none.
C31_SendersAreTheListingSinks ==
    Len(applied) = 1 =>
        \A id \in DOMAIN topic_subscriptions :
            topic_subscriptions[id].tx =
                {Chan(1, sink) : sink \in
                    {x \in DeclaredSinks(applied[1].config) :
                        id[2] \in InputsOf(applied[1].config, x)}}

\* Source "a", listed twice by stream sink s1 and once by the archive, holds
\* the two channels; source "b", listed by no sink, holds none.
C31_Witness ==
    /\ Len(applied) = 1
    /\ applied[1].config.streams = Streams1(<<"a", "a">>)
    /\ DOMAIN topic_subscriptions = {TopicSubscriber("a"), TopicSubscriber("b")}
    /\ topic_subscriptions[TopicSubscriber("a")].tx
          = {Chan(1, GRPCSink("s1")), Chan(1, DBSink)}
    /\ topic_subscriptions[TopicSubscriber("b")].tx = {}

\* C32: for each inbound message the converter is run exactly once, whatever
\* the number of downstream sinks, and the one result goes to every sending
\* half: when the message's task has ended, either every downstream sink that
\* still receives has got a packet of it or none has.
C32_ConvertedOncePerMessage ==
    \A i \in 1..Len(tasks) :
        TaskDone(i) =>
            /\ tasks[i].runs = 1
            /\ \/ \A ch \in tasks[i].worker.tx : chans[ch].open => Enqueued(i, ch) = 1
               \/ \A ch \in tasks[i].worker.tx : chans[ch].open => Enqueued(i, ch) = 0

\* The log units a queue of packets holds, in order
RECURSIVE QueueUnits(_)
QueueUnits(queue) ==
    IF queue = <<>> THEN <<>> ELSE Head(queue).units \o QueueUnits(Tail(queue))
\* What the sink of channel ch receives, in order: what it has taken and what
\* waits on the channel
Received(ch) ==
    (IF ch \in DOMAIN sinkTasks THEN sinkTasks[ch].logged ELSE <<>>)
        \o QueueUnits(chans[ch].queue)
\* Messages i and j came in on one subscription, i first
SameSource(i, j) == i < j /\ tasks[i].worker = tasks[j].worker
\* On channel ch the packet of message j stands before that of message i
Before(ch, j, i) ==
    \E p, q \in 1..Len(Received(ch)) :
        p < q /\ Received(ch)[p].msg = j /\ Received(ch)[q].msg = i

\* C33: when m1 and m2 arrive on one source in that order and m1's conversion
\* task has made all its sends before m2's task takes its first turn, no sink
\* receives m2's packet before m1's.
C33_OrderKeptWhenTasksDoNotOverlap ==
    \A i, j \in 1..Len(tasks) :
        (SameSource(i, j) /\ i \in tasks[j].after)
        => \A ch \in DOMAIN chans : ~Before(ch, j, i)

\* Both messages of a source are with a sink, the first before the second;
\* the first message's task had ended when the second's began.
C33_Witness ==
    /\ Len(tasks) = 2 /\ SameSource(1, 2) /\ 1 \in tasks[2].after
    /\ \E ch \in DOMAIN sinkTasks :
          /\ Len(sinkTasks[ch].logged) = 2
          /\ Before(ch, 1, 2)

\* C34: order per source is not kept under concurrent conversions: while the
\* tasks of two messages of one source both have a send to make on a channel,
\* the later message's task can make its send first; and a state is reached
\* in which a sink has the later message's packet before the earlier one's.
C34_LaterTaskMaySendFirst ==
    \A i, j \in 1..Len(tasks) :
        SameSource(i, j) =>
            \A ch \in tasks[i].pending \cap tasks[j].pending :
                ENABLED ConvTaskStep(j, ch)

\* A sink has logged the second message of a source and then the first.
C34_Witness ==
    /\ Len(tasks) = 2 /\ SameSource(1, 2)
    /\ Converts(1) /\ Converts(2)
    /\ \E ch \in DOMAIN sinkTasks :
          /\ Len(sinkTasks[ch].logged) = 2
          /\ sinkTasks[ch].logged[1].msg = 2
          /\ sinkTasks[ch].logged[2].msg = 1

\* The kinds of LogData that carry one unit
SingleKinds == {"Archetype", "AnyComponents"}
\* The log calls channel ch's worker makes in the step
NewCalls(ch) ==
    SubSeq(sinkTasks'[ch].logged, Len(sinkTasks[ch].logged) + 1,
           Len(sinkTasks'[ch].logged))

\* C35: both sinks treat the four packet kinds alike: the step that takes a
\* packet off a channel makes one backend log call for a single-unit packet
\* (archetype or raw components), and for a batch of n units n log calls, one
\* per unit in batch order, none for an empty batch; no other step of a sink
\* makes a log call.
C35_LogCallsPerPacket ==
    [][\A ch \in DOMAIN sinkTasks :
          /\ Len(sinkTasks'[ch].logged) >= Len(sinkTasks[ch].logged)
          /\ SubSeq(sinkTasks'[ch].logged, 1, Len(sinkTasks[ch].logged))
                = sinkTasks[ch].logged
          /\ IF chans'[ch].queue # chans[ch].queue /\ chans[ch].queue # <<>>
                  /\ chans'[ch].queue = Tail(chans[ch].queue)
                  /\ sinkTasks'[ch].state = "Running"
             THEN LET p == Head(chans[ch].queue) IN
                    /\ p.kind \in SingleKinds =>
                          Len(NewCalls(ch)) = 1 /\ NewCalls(ch) = p.units
                    /\ p.kind \notin SingleKinds =>
                          Len(NewCalls(ch)) = Len(p.units) /\ NewCalls(ch) = p.units
             ELSE NewCalls(ch) = <<>>]_vars

\* The stream sink took an archetype and then a batch of two, the archive a
\* batch of one and then raw components: each made its calls in order.
C35_Witness ==
    /\ sinkTasks[Chan(1, GRPCSink("s1"))].logged
          = <<LogComponents(1), LogComponents(3), LogComponents(4)>>
    /\ sinkTasks[Chan(1, DBSink)].logged = <<LogComponents(3), LogComponents(2)>>
    /\ \A ch \in DOMAIN sinkTasks : chans[ch].queue = <<>> /\ sinkTasks[ch].state = "Running"

\* ------------------------------------------------------------------------
\* Replacing and tearing down a topology
\* ------------------------------------------------------------------------
\* C36: after a successful apply on a state that holds a topology, the old
\* topology's shutdown signal has fired and the subscription workers, sink
\* workers and channels of the state are exactly those of the new
\* configuration: what the new configuration does not declare is gone, and
\* no source sends into a channel of the old topology.
C36_ApplyReplacesTopology ==
    (/\ Len(applied) = 2 /\ dropPhase = "alive"
     /\ applied[1].result.ok /\ applied[2].result.ok)
    => LET cfg == applied[2].config IN
       /\ 1 \in tripped
       /\ DOMAIN topic_subscriptions = {TopicSubscriber(n) : n \in DOMAIN cfg.topics}
       /\ \A id \in DOMAIN topic_subscriptions :
             /\ topic_subscriptions[id].gen = 2
             /\ \A ch \in topic_subscriptions[id].tx : ChanGen(ch) = 2
       /\ DOMAIN grpc_sinks = {GRPCSink(n) : n \in DOMAIN cfg.streams}
       /\ \A id \in DOMAIN grpc_sinks : grpc_sinks[id].gen = 2
       /\ db_sink = Some([gen |-> 2])
       /\ DOMAIN edges = DeclaredSinks(cfg)
       /\ \A id \in DOMAIN edges : edges[id].channel = Chan(2, id)

\* C37: when the topology is torn down every sink worker, the streaming sinks
\* and the archival sink alike, has flushed its backend exactly once, and a
\* failed flush, which is logged, keeps no other sink from being flushed.
C37_EverySinkFlushedOnce ==
    dropPhase # "alive" =>
        \A ch \in DOMAIN sinkTasks :
            /\ sinkTasks[ch].flushes = 1
            /\ sinkTasks[ch].flush_errors <= 1

\* C40: during the teardown of a TopologyState no backend log call is made on
\* a streaming sink's stream once the sink has flushed it.
C40_NoLogCallAfterFlush ==
    [][\A ch \in DOMAIN sinkTasks :
          (dropPhase # "alive" /\ ChanSink(ch) # DBSink /\ sinkTasks[ch].flushes > 0)
          => sinkTasks'[ch].logged = sinkTasks[ch].logged]_vars

\* ------------------------------------------------------------------------
\* The edges of a compiled topology
\* ------------------------------------------------------------------------
\* The inputs a sink declares, in order
InputSeqOf(config, sink) ==
    IF sink = DBSink THEN config.db.inputs
    ELSE IF sink[2] \in DOMAIN config.streams THEN config.streams[sink[2]].inputs
    ELSE <<>>
\* The inputs that name a declared topic, as sources, in the declared order
RECURSIVE DeclaredSources(_, _)
DeclaredSources(inputs, topics) ==
    IF inputs = <<>> THEN <<>>
    ELSE (IF Head(inputs) \in topics THEN <<TopicSubscriber(Head(inputs))>> ELSE <<>>)
             \o DeclaredSources(Tail(inputs), topics)

\* C38: in every TopologyConfig the compiler returns, the input list of each
\* sink holds only ComponentIDs of declared topic sources: the declared
\* inputs in their order with the names of no declared topic left out; no
\* sink is an input of a sink; the archival sink always has an entry, and a
\* sink without an entry declares no topic.
C38_EdgesHoldDeclaredSources ==
    \A i \in 1..Len(compiled) :
        compiled[i].result.ok =>
            LET topo == compiled[i].result.val IN
            /\ DBSink \in DOMAIN topo.edges
            /\ DOMAIN topo.edges \subseteq DeclaredSinks(loaded_config)
            /\ \A sink \in DeclaredSinks(loaded_config) :
                  (IF sink \in DOMAIN topo.edges THEN topo.edges[sink] ELSE <<>>)
                    = DeclaredSources(InputSeqOf(loaded_config, sink),
                                      DOMAIN loaded_config.topics)
            /\ \A sink \in DOMAIN topo.edges :
                  \A k \in 1..Len(topo.edges[sink]) :
                      /\ topo.edges[sink][k][1] = "TopicSubscriber"
                      /\ topo.edges[sink][k] \in DOMAIN topo.topic_subscriptions

\* Both sinks list an undeclared name among declared topics; the stream sink
\* lists the two topics, the archive has them around the undeclared name.
C38_Witness ==
    /\ DOMAIN loaded_config.topics = {"a", "s1"}
    /\ DOMAIN loaded_config.streams = {"s2"}
    /\ loaded_config.streams["s2"].inputs = <<"s1", "a">>
    /\ loaded_config.db.inputs = <<"a", "zz", "s1">>
    /\ Len(compiled) >= 1 /\ compiled[1].result.ok
    /\ compiled[1].result.val.edges[GRPCSink("s2")]
          = <<TopicSubscriber("s1"), TopicSubscriber("a")>>
    /\ compiled[1].result.val.edges[DBSink]
          = <<TopicSubscriber("a"), TopicSubscriber("s1")>>

\* ------------------------------------------------------------------------
\* The three indexes of the registry
\* ------------------------------------------------------------------------
\* The registrations without a source type
GenericRegs == {i \in 1..Len(regLog) : regLog[i].ros_type = None}

\* C39: after any sequence of registrations the exact index holds, for every
\* pair (T, A) registered successfully, the converter registered last for the
\* pair; the default slot of T holds the converter registered first for T,
\* and no later registration changes a default that exists; the generic
\* index holds for a target the generic converter registered last for it.
C39_IndexesFollowRegistrations ==
    /\ [](/\ DOMAIN converters
               = UNION {{<<t, regLog[i].rerun_name>> : i \in SpecificRegs(t)} :
                           t \in InstalledTypes}
          /\ \A k \in DOMAIN converters :
                converters[k] = regLog[Latest(SpecificRegsUnder(k[1], k[2]))]
          /\ DOMAIN converters_by_ros_type
               = {t \in InstalledTypes : SpecificRegs(t) # {}}
          /\ \A t \in DOMAIN converters_by_ros_type :
                converters_by_ros_type[t] = regLog[Earliest(SpecificRegs(t))]
          /\ DOMAIN generic_converters = {regLog[i].rerun_name : i \in GenericRegs}
          /\ \A n \in DOMAIN generic_converters :
                generic_converters[n] = regLog[Latest(GenericRegsUnder(n))])
    /\ [][\A t \in DOMAIN converters_by_ros_type :
             /\ t \in DOMAIN converters_by_ros_type'
             /\ converters_by_ros_type'[t] = converters_by_ros_type[t]]_vars

\* Two converters were registered for one pair and then a generic one: the
\* exact index holds the second, the default slot the first.
C39_Witness ==
    /\ Len(regLog) = 3
    /\ regLog[1].ros_type = Some(STD_MSGS_STRING)
    /\ regLog[2].ros_type = Some(STD_MSGS_STRING)
    /\ regLog[1].rerun_name = regLog[2].rerun_name
    /\ regLog[1] # regLog[2]
    /\ regLog[3].ros_type = None
    /\ converters[<<STD_MSGS_STRING, regLog[1].rerun_name>>] = regLog[2]
    /\ converters_by_ros_type[STD_MSGS_STRING] = regLog[1]
    /\ generic_converters[regLog[3].rerun_name] = regLog[3]


====
